---- MODULE Spec2Model ----
(***************************************************************************)
(* A model of the Combiner asset bundler: the request handler              *)
(* (Combiner.baseHandlerFn), the recursive dependency walk                 *)
(* (Combiner.getAssetAndDependencies), the shared file cache (CachedFile), *)
(* the plugin pipeline (CachedFile.runPlugins), the directive parser       *)
(* (Combiner.parseCommentArray) and the bundle writer                      *)
(* (Combiner.writeOutput); the promise-based Combiner of                   *)
(* combiners/Combiner.js with its JSCombiner and CSSCombiner middleware;   *)
(* the Preprocessor middleware with LESSPreprocessor and SASSPreprocessor; *)
(* the BabelPlugin and NPMPlugin factories; and the state that the         *)
(* Combiner instances of one process share.                                *)
(*                                                                         *)
(* Text is modelled as a sequence of tokens.  A token is a piece of plain  *)
(* text, one well-formed "@require [...]" occurrence with its identifiers, *)
(* or one "@require [...]" occurrence whose body does not evaluate.        *)
(***************************************************************************)
EXTENDS Integers, Sequences, FiniteSets, TLC

VARIABLES
  disk,      \* the file system: full path -> [exists, mtime, data]
  cache,     \* CachedFile.cache: full path -> CachedFile instance
  res,       \* the last request: what baseHandlerFn did and left behind
  served,    \* request -> the body sent for it since the last file change
  nreq,      \* number of requests handled so far
  nwrites,   \* number of file modifications so far
  handlers,  \* this.handlers, in the iteration order of for..in
  config,    \* config.handlers as the user wrote it, in written order
  mw,        \* the last request seen by a JSCombiner or CSSCombiner middleware
  aio,       \* the CachedFile being read asynchronously, and its promises
  parse,     \* a text given to Combiner.parseCommentArray, and what it returned
  lg,        \* an instance of the promise-based Combiner and its calls
  pp,        \* a request passing through a Preprocessor middleware
  pl,        \* a plugin built by a plugin factory, and its last invocation
  proc       \* what every Combiner of the process shares, and the instances

vars ==
  <<disk, cache, res, served, nreq, nwrites, handlers, config, mw, aio,
    parse, lg, pp, pl, proc>>

----------------------------------------------------------------------------
(* Bounds of the model.                                                    *)

MaxRequests == 2
MaxWrites == 1
DepthLimit == 8
MaxPlugins == 3
MaxHandlers == 3
MaxTokens == 3
MaxCalls == 2
MaxFailures == 1
MaxInvocations == 3
MaxInstances == 2

----------------------------------------------------------------------------
(* Text.                                                                   *)

Txt(s) == [k |-> "txt", v |-> s, ids |-> <<>>]
Req(ids) == [k |-> "req", v |-> "", ids |-> ids]
BadReq == [k |-> "bad", v |-> "", ids |-> <<>>]
BadReqOf(ids) == [k |-> "bad", v |-> "", ids |-> ids]

\* this.data = null in the CachedFile constructor
Null == << [k |-> "null", v |-> "", ids |-> <<>>] >>

\* the value of a call that returns nothing
Undefined == << [k |-> "undefined", v |-> "", ids |-> <<>>] >>

EmptyString == << >>

\* Number.MAX_VALUE, larger than every modification time
NumberMAX_VALUE == 1000000

\* JavaScript truthiness of a plugin's return value, as used by "||"
Falsy(v) == v = Undefined \/ v = Null \/ v = EmptyString

\* Values of configuration properties: a string, an object with its own
\* properties in insertion order (as <<key, value>> pairs), or nothing
Str(s) == [t |-> "string", s |-> s, entries |-> <<>>]
Obj(entries) == [t |-> "object", s |-> "", entries |-> entries]
Absent == [t |-> "undefined", s |-> "", entries |-> <<>>]
Arr(items) == [t |-> "array", s |-> "", entries |-> items]
Fn(f) == [t |-> "function", s |-> "", entries |-> <<f>>]

\* isA(String, v), isA(Object, v)
isAString(v) == v.t = "string"
isAObject(v) == v.t = "object"

\* Object.keys(obj)
ObjectKeys(obj) == [i \in 1..Len(obj.entries) |-> obj.entries[i][1]]

\* obj[key], for a key the object has
ObjectGet(obj, key) ==
  obj.entries[CHOOSE i \in 1..Len(obj.entries) : obj.entries[i][1] = key][2]

----------------------------------------------------------------------------
(* Names, extensions and paths.                                            *)

Names == {"a.js", "b.js", "c.JS", "s.css", "x.js", "n.txt"}
Dirs == {"pub", "lib", "css", "cdn"}
Paths == Dirs \X Names

\* pth.extname
extname(name) ==
  CASE name = "a.js" -> ".js"
    [] name = "b.js" -> ".js"
    [] name = "x.js" -> ".js"
    [] name = "c.JS" -> ".JS"
    [] name = "s.css" -> ".css"
    [] name = "n.txt" -> ".txt"
    [] name = "a.packaged.js" -> ".js"
    [] name = "s.LESS" -> ".LESS"
    [] name = "s.less" -> ".less"
    [] name = "s.scss" -> ".scss"
    [] name = "s.SASS" -> ".SASS"
    [] OTHER -> ""

\* String.prototype.toLowerCase on extensions
toLowerCase(ext) ==
  CASE ext = ".JS" -> ".js"
    [] ext = ".LESS" -> ".less"
    [] ext = ".SASS" -> ".sass"
    [] ext \in {"TRUE", "True", "tRuE"} -> "true"
    [] ext = "FALSE" -> "false"
    [] OTHER -> ext

\* Combiner.getType
getType(name) == toLowerCase(extname(name))

\* pth.join(prefix, root.path, relativePath): the root path is normalised,
\* so that "pub/" and "pub" name the same directory
normalizeDir(path) == IF path = "pub/" THEN "pub" ELSE path

fullPath(root, relativePath) == <<normalizeDir(root.path), relativePath>>

----------------------------------------------------------------------------
(* Plugins.  A plugin is called with (data, synchronous, extension) and    *)
(* `this` bound to the CachedFile; it returns a value or throws.           *)
(*   wrap   returns the data between two added pieces (as NPMPlugin does)  *)
(*   mark   returns the data followed by one added piece                   *)
(*   empty  returns the empty string                                       *)
(*   undef  returns nothing                                                *)
(*   throws throws an Error                                                *)

PluginKinds == {"wrap", "mark", "empty", "undef", "throws"}

PluginCall(p, data) ==
  CASE p = "wrap"   -> [threw |-> FALSE, ret |-> <<Txt("<")>> \o data \o <<Txt(">")>>]
    [] p = "mark"   -> [threw |-> FALSE, ret |-> data \o <<Txt("!")>>]
    [] p = "empty"  -> [threw |-> FALSE, ret |-> EmptyString]
    [] p = "undef"  -> [threw |-> FALSE, ret |-> Undefined]
    [] p = "throws" -> [threw |-> TRUE, ret |-> Undefined]

----------------------------------------------------------------------------
(* CachedFile.                                                             *)

\* one pass of the loop of runPlugins: the try block and its catch
pluginStepNoCatch(p, alteredData) ==
  LET r == PluginCall(p, alteredData)
  IN  [data |-> IF r.threw \/ Falsy(r.ret) THEN alteredData ELSE r.ret,
       call |-> [plugin |-> p, arg |-> alteredData, threw |-> r.threw,
                 ret |-> r.ret],
       escaped |-> r.threw]

pluginStep(p, alteredData) ==
  LET r == PluginCall(p, alteredData)
  IN  [data |-> IF r.threw THEN alteredData
                ELSE IF Falsy(r.ret) THEN alteredData ELSE r.ret,
       call |-> [plugin |-> p, arg |-> alteredData, threw |-> r.threw,
                 ret |-> r.ret],
       escaped |-> FALSE]

RECURSIVE runPluginsFrom(_, _, _, _)
runPluginsFrom(plugins, i, alteredData, calls) ==
  IF i > Len(plugins)
  THEN [data |-> alteredData, calls |-> calls, escaped |-> FALSE]
  ELSE LET s == pluginStep(plugins[i], alteredData)
       IN  IF s.escaped
           THEN [data |-> alteredData, calls |-> Append(calls, s.call),
                 escaped |-> TRUE]
           ELSE runPluginsFrom(plugins, i + 1, s.data, Append(calls, s.call))

\* CachedFile.prototype.runPlugins
runPlugins(plugins, data) == runPluginsFrom(plugins, 1, data, <<>>)

NoEntry == [present |-> FALSE, data |-> Null, mtime |-> 0, plugins |-> <<>>]

useCacheNever(self, mtime) == FALSE

\* var useCache = cache[self.path] && cache[self.path].mtime <= mtime
useCache(self, mtime) == self.present /\ self.mtime <= mtime

\* what the file system holds under a path that is a directory
Directory == << [k |-> "dir", v |-> "", ids |-> <<>>] >>

\* fs.readFileSync(self.path) throws: the path exists and is no file
unreadable(dsk, path) == dsk[path].data = Directory

\* CachedFile.prototype.readFile, synchronous branch, on the instance stored
\* in the cache under `path`
readFile(cch, dsk, path) ==
  LET self == cch[path]
      mtime == dsk[path].mtime
      uc == useCache(self, mtime)
      raw == dsk[path].data
      ran == runPlugins(self.plugins, raw)
      kept == uc \/ unreadable(dsk, path)
  IN  [entry |-> [self EXCEPT
                    !.data = IF kept THEN self.data
                             ELSE IF ran.escaped THEN raw ELSE ran.data,
                    !.mtime = IF kept THEN self.mtime ELSE mtime],
       calls |-> IF kept THEN <<>>
                 ELSE [i \in 1..Len(ran.calls) |->
                         [plugin |-> ran.calls[i].plugin,
                          arg |-> ran.calls[i].arg,
                          threw |-> ran.calls[i].threw,
                          ret |-> ran.calls[i].ret,
                          path |-> path]],
       read |-> [path |-> path, useCache |-> uc, wasCached |-> self.data # Null,
                 cachedMtime |-> self.mtime, diskMtime |-> mtime,
                 raw |-> raw],
       escaped |-> ~uc /\ (unreadable(dsk, path) \/ ran.escaped)]

\* function CachedFile(filePath, synchronous, plugins), synchronous = true
newCachedFile(cch, dsk, path, plugins) ==
  LET fresh == [present |-> TRUE, data |-> Null, mtime |-> NumberMAX_VALUE,
                plugins |-> plugins]
  IN  readFile([cch EXCEPT ![path] = fresh], dsk, path)

----------------------------------------------------------------------------
(* CachedFile.prototype.readFile, asynchronous branch.  The two deferreds  *)
(* of the instance are pending, resolved or rejected; an exception thrown  *)
(* inside an I/O callback has no caller to catch it.                       *)

NoRead ==
  [path |-> <<"", "">>, phase |-> "idle", file |-> "pending",
   stat |-> "pending", statErr |-> FALSE, readErr |-> FALSE,
   escaped |-> FALSE, mtime |-> 0]

\* a deferred settles once: reject and resolve after that change nothing
settle(deferred, outcome) == IF deferred = "pending" THEN outcome ELSE deferred

\* the local `cache` of the fs.stat callback where useCache is computed:
\* `var cache = CachedFile.cache` comes one statement later, and the
\* declaration is hoisted, so that the variable shadows the outer one and
\* has no value yet
hoistedCache == "undefined"

\* cache[self.path] on that value is a TypeError
useCacheThrows == hoistedCache = "undefined"

\* function(statErr, stat) {...}, the callback of fs.stat
statCallback(self, statErr, dsk) ==
  [self EXCEPT
     !.statErr = statErr,
     !.stat = IF statErr THEN settle(@, "rejected") ELSE @,
     !.mtime = IF statErr THEN NumberMAX_VALUE ELSE dsk[self.path].mtime,
     !.escaped = useCacheThrows,
     !.phase = IF useCacheThrows THEN "done" ELSE "read"]

\* function(readErr, file) {...}, the callback of fs.readFile:
\* file.toString() is a TypeError when the read failed
readCallback(self, readErr) ==
  [self EXCEPT
     !.readErr = readErr,
     !.file = IF readErr THEN settle(@, "rejected") ELSE settle(@, "resolved"),
     !.stat = IF readErr THEN @ ELSE settle(@, "resolved"),
     !.escaped = readErr,
     !.phase = "done"]

\* readFile(false) on the instance of `path`, constructed first when the
\* cache has none: this.deferreds are new, fs.stat is requested and the
\* promise of the file is returned
ReadFileAsync(path) ==
  /\ aio.phase = "idle"
  /\ aio' = [NoRead EXCEPT !.path = path, !.phase = "stat"]
  /\ cache' = IF cache[path].present THEN cache
              ELSE [cache EXCEPT ![path] =
                      [present |-> TRUE, data |-> Null,
                       mtime |-> NumberMAX_VALUE, plugins |-> <<>>]]
  /\ UNCHANGED <<disk, res, served, nreq, nwrites, handlers, config, mw,
                 parse, lg,
                 pp, pl, proc>>

\* the pending I/O callback fires, with or without an error; a file that
\* does not exist always gives one
IoCallback(err) ==
  /\ aio.phase \in {"stat", "read"}
  /\ disk[aio.path].exists \/ err
  /\ aio' = IF aio.phase = "stat" THEN statCallback(aio, err, disk)
            ELSE readCallback(aio, err)
  /\ UNCHANGED <<disk, cache, res, served, nreq, nwrites, handlers, config,
                 mw, parse, lg,
                 pp, pl, proc>>

----------------------------------------------------------------------------
(* Combiner: directive parser and handler lookup.                          *)

\* the text of one identifier after
\* .replace(/(\*|\/\/|\r?\n\s*)/g, '').replace(/\,\s*/g, ','): every '*' and
\* '//' is removed, and the white space after a comma
stripped(id) ==
  CASE id = "lib//u.js" -> "libu.js"
    [] id = "g*.js" -> "g.js"
    [] id = "p, q.js" -> "p,q.js"
    [] OTHER -> id

\* eval('(' + evalString + ')') of a well-formed occurrence
evalArray(ids) == [i \in 1..Len(ids) |-> stripped(ids[i])]

\* nothing was parsed yet: results = [] and no exception
NoResults == [results |-> <<>>, threw |-> FALSE]

\* eval('(' + evalString + ')') returns: the text between the brackets is
\* an array literal
evaluates(piece) == piece.k = "req"

\* the same try block without its catch: the exception of eval escapes
occurrenceNoCatch(st, piece) ==
  IF st.threw THEN st
  ELSE IF evaluates(piece)
       THEN [st EXCEPT !.results = @ \o evalArray(piece.ids)]
       ELSE [st EXCEPT !.threw = TRUE]

\* one pass of the do..while body: try { results = results.concat(eval(..)) }
\* catch(e) { debug(..) }; a text outside a directive is no match of the
\* regular expression
occurrence(st, piece) ==
  IF evaluates(piece)
  THEN [st EXCEPT !.results = @ \o evalArray(piece.ids)]
  ELSE st

\* the do..while over the occurrences: an occurrence that does not evaluate
\* is caught and skipped
RECURSIVE parseFrom(_, _, _)
parseFrom(source, i, st) ==
  IF i > Len(source) THEN st
  ELSE parseFrom(source, i + 1, occurrence(st, source[i]))

\* Combiner.parseCommentArray with the default Combiner.REQUIRE: what it
\* returns, and whether an exception left it
parseOutcome(source) == parseFrom(source, 1, NoResults)

\* the array Combiner.parseCommentArray returns
parseCommentArray(source) == parseOutcome(source).results

\* no text was parsed yet
NoParse ==
  [source |-> <<>>, results |-> <<>>, threw |-> FALSE, done |-> FALSE]

indexOf(seq, x) ==
  IF \E i \in 1..Len(seq) : seq[i] = x
  THEN (CHOOSE i \in 1..Len(seq) :
          seq[i] = x /\ \A j \in 1..(i - 1) : seq[j] # x) - 1
  ELSE -1

NoHandler == 0

\* handler.extensions when the configuration gives none
NoExtensions == <<"undefined">>

\* the outcome of a lookup that ends with a TypeError
Thrown == -1

\* the first handler of this.handlers, in for..in order, at which the loop
\* of getHandlerForType stops: it lists the type, or it has no extensions
\* and handler.extensions.indexOf throws
stopsAt(hs, type) ==
  CHOOSE i \in 1..Len(hs) :
    /\ hs[i].extensions = NoExtensions \/ indexOf(hs[i].extensions, type) # -1
    /\ \A j \in 1..(i - 1) :
         hs[j].extensions # NoExtensions /\ indexOf(hs[j].extensions, type) = -1

\* Combiner.prototype.getHandlerForType: the index in this.handlers of the
\* first handler listing the type, NoHandler (null) when there is none
getHandlerForType(hs, type) ==
  IF \E i \in 1..Len(hs) :
       hs[i].extensions = NoExtensions \/ indexOf(hs[i].extensions, type) # -1
  THEN IF hs[stopsAt(hs, type)].extensions = NoExtensions THEN Thrown
       ELSE stopsAt(hs, type)
  ELSE NoHandler

----------------------------------------------------------------------------
(* Combiner.getAssetAndDependencies.  The walk threads a record through    *)
(* the recursion:                                                          *)
(*   order, cachedFiles  the two properties of valueStore (cachedFiles     *)
(*                       holds references into CachedFile.cache, so it is  *)
(*                       kept as its set of keys)                          *)
(*   cache               CachedFile.cache                                  *)
(*   warnings            the relative paths reported by console.warn       *)
(*   calls, reads        every plugin invocation and every readFile        *)
(*   via                 the handler each asset was walked with            *)
(*   lookups             the handler chosen for each requirement           *)
(*   unloaded            the keys pushed to order while cachedFiles had no *)
(*                       loaded entry for them                             *)
(*   error               an exception is propagating                       *)
(*   overflow            the recursion went deeper than DepthLimit         *)

FILE_SYSTEM == "File system path"
NETWORK == "Network path; uses request"

RECURSIVE existingFrom(_, _, _, _)
existingFrom(roots, i, relativePath, existingAssets) ==
  IF i > Len(roots) THEN existingAssets
  ELSE IF roots[i].type = NETWORK
       THEN existingFrom(roots, i + 1, relativePath, existingAssets)
       ELSE existingFrom(roots, i + 1, relativePath,
              IF disk[fullPath(roots[i], relativePath)].exists
              THEN Append(existingAssets, fullPath(roots[i], relativePath))
              ELSE existingAssets)

existingFirstOnly(handler, relativePath) ==
  IF existingFrom(handler.roots, 1, relativePath, <<>>) = <<>> THEN <<>>
  ELSE <<Head(existingFrom(handler.roots, 1, relativePath, <<>>))>>

\* the handler.roots.forEach that fills existingAssets
existingAssets(handler, relativePath) ==
  existingFrom(handler.roots, 1, relativePath, <<>>)

warnMissingThrows(st, relativePath) ==
  [st EXCEPT !.warnings = Append(@, relativePath), !.error = TRUE]

\* if (!foundOne) { console.warn(...) }
warnMissing(st, relativePath) ==
  [st EXCEPT !.warnings = Append(@, relativePath)]

alreadyLoadedNever(st, assetName) == FALSE

\* if (valueStore.cachedFiles[assetName]) { return; }
alreadyLoaded(st, assetName) == assetName \in st.cachedFiles

unshiftOrder(order, assetName) == <<assetName>> \o order

\* valueStore.order.push(assetName)
pushOrder(order, assetName) == Append(order, assetName)

\* the cached instance is re-read, or a new CachedFile is constructed
loadAsset(st, handler, assetName) ==
  IF st.cache[assetName].present
  THEN readFile(st.cache, disk, assetName)
  ELSE newCachedFile(st.cache, disk, assetName, handler.plugins)

withLoadedFlushing(st, h, assetName, ld) ==
  [st EXCEPT !.cache = IF ld.read.wasCached /\ ~ld.read.useCache
                       THEN [p \in Paths |->
                               IF p = assetName THEN ld.entry ELSE NoEntry]
                       ELSE [@ EXCEPT ![assetName] = ld.entry],
             !.calls = @ \o ld.calls,
             !.reads = Append(@, ld.read),
             !.via = @ @@ (assetName :> h),
             !.error = ld.escaped,
             !.cachedFiles = IF ld.escaped THEN @ ELSE @ \cup {assetName}]

\* the CachedFile left in the cache, its plugin calls and its read are
\* recorded; valueStore.cachedFiles[assetName] = cachedFile
withLoaded(st, h, assetName, ld) ==
  [st EXCEPT !.cache[assetName] = ld.entry,
             !.calls = @ \o ld.calls,
             !.reads = Append(@, ld.read),
             !.via = @ @@ (assetName :> h),
             !.error = ld.escaped,
             !.cachedFiles = IF ld.escaped THEN @ ELSE @ \cup {assetName}]

\* var reqHandler = this.getHandlerForType(type) || handler
reqHandlerFor(hs, requirement, h) ==
  IF getHandlerForType(hs, getType(requirement)) # NoHandler
  THEN getHandlerForType(hs, getType(requirement))
  ELSE h

\* after the requirement loop: valueStore.order.push(assetName)
withPushed(st, assetName) ==
  IF st.error \/ st.overflow THEN st
  ELSE [st EXCEPT !.order = pushOrder(@, assetName),
                  !.unloaded = IF /\ assetName \in st.cachedFiles
                                  /\ st.cache[assetName].data # Null
                               THEN @ ELSE @ \cup {assetName}]

withWarningListed(st, existing, relativePath) ==
  IF existing = <<>>
  THEN [warnMissing(st, relativePath) EXCEPT
          !.order = pushOrder(@, <<"pub", relativePath>>)]
  ELSE st

\* if (!foundOne) {...}
withWarning(st, existing, relativePath) ==
  IF existing = <<>> THEN warnMissing(st, relativePath) ELSE st

\* the handler chosen for a requirement is recorded
withLookup(st, requirement, reqHandler) ==
  [st EXCEPT !.lookups = Append(@, [id |-> requirement, h |-> reqHandler])]

RECURSIVE getAssetAndDependencies(_, _, _, _)
RECURSIVE getAssetFrom(_, _, _, _, _)
RECURSIVE requirementsFrom(_, _, _, _, _)

getAssetAndDependencies(relativePath, h, st, fuel) ==
  IF fuel = 0 THEN [st EXCEPT !.overflow = TRUE]
  ELSE getAssetFrom(existingAssets(handlers[h], relativePath), 1, h,
                    withWarning(st, existingAssets(handlers[h], relativePath),
                                relativePath),
                    fuel)

withRequirementsBackwards(st, h, assetName, fuel) ==
  LET requirements == parseCommentArray(st.cache[assetName].data)
  IN  IF st.error THEN st
      ELSE requirementsFrom(
             [i \in 1..Len(requirements) |->
                requirements[Len(requirements) + 1 - i]], 1, h, st, fuel)

\* the requirement loop of a loaded asset
withRequirements(st, h, assetName, fuel) ==
  IF st.error THEN st
  ELSE requirementsFrom(parseCommentArray(st.cache[assetName].data), 1, h,
                        st, fuel)

\* function _getAsset(assetName, index, array) {...}
getAsset(st, h, assetName, fuel) ==
  IF alreadyLoaded(st, assetName) THEN st
  ELSE withPushed(
         withRequirements(
           withLoaded(st, h, assetName, loadAsset(st, handlers[h], assetName)),
           h, assetName, fuel),
         assetName)

\* existingAssets.forEach(_getAsset)
getAssetFrom(existing, i, h, st, fuel) ==
  IF i > Len(existing) \/ st.error \/ st.overflow THEN st
  ELSE getAssetFrom(existing, i + 1, h, getAsset(st, h, existing[i], fuel),
                    fuel)

\* one pass of the requirement loop
requirement(st, h, id, fuel) ==
  IF reqHandlerFor(handlers, id, h) = Thrown
  THEN [st EXCEPT !.error = TRUE]
  ELSE getAssetAndDependencies(id, reqHandlerFor(handlers, id, h),
         withLookup(st, id, reqHandlerFor(handlers, id, h)), fuel - 1)

\* for (var i = 0; i < requirements.length; i++) {...}
requirementsFrom(requirements, i, h, st, fuel) ==
  IF i > Len(requirements) \/ st.error \/ st.overflow THEN st
  ELSE requirementsFrom(requirements, i + 1, h,
                        requirement(st, h, requirements[i], fuel), fuel)

----------------------------------------------------------------------------
(* Combiner.writeOutput and Combiner.baseHandlerFn.                        *)

RECURSIVE joinFrom(_, _, _, _)
joinFrom(strings, i, separator, out) ==
  IF i > Len(strings) THEN out
  ELSE joinFrom(strings, i + 1, separator,
                IF i = 1 THEN strings[i] ELSE out \o separator \o strings[i])

\* Array.prototype.join
join(strings, separator) == joinFrom(strings, 1, separator, EmptyString)

\* handler.fileSeparator || ''
separatorOf(handler) ==
  IF Falsy(handler.fileSeparator) THEN EmptyString ELSE handler.fileSeparator

outputReversed(handler, order, cch) ==
  join([i \in 1..Len(order) |-> cch[order[Len(order) + 1 - i]].data],
       separatorOf(handler))

\* the output string built and sent by writeOutput
output(handler, order, cch) ==
  join([i \in 1..Len(order) |-> cch[order[i]].data], separatorOf(handler))

\* one call res.set(name, value); `from` tells the part of writeOutput
\* that made it
SetCall(name, value, from) == [name |-> name, value |-> value, from |-> from]

contentTypeMapFirst(handler, assetName) ==
  IF isAObject(handler.outputMimeTypes)
     /\ (\E i \in 1..Len(handler.outputMimeTypes.entries) :
           handler.outputMimeTypes.entries[i][1] \in {getType(assetName), "*"})
  THEN <<SetCall("Content-Type",
                 handler.outputMimeTypes.entries[
                   CHOOSE i \in 1..Len(handler.outputMimeTypes.entries) :
                     handler.outputMimeTypes.entries[i][1]
                       \in {getType(assetName), "*"}][2],
                 "outputMimeType")>>
  ELSE IF isAString(handler.outputMimeType)
  THEN <<SetCall("Content-Type", handler.outputMimeType.s, "outputMimeType")>>
  ELSE <<>>

\* writeOutput: "Apply custom outputMimeTypes as defined in the handler"
contentType(handler, assetName) ==
  IF isAString(handler.outputMimeType)
  THEN <<SetCall("Content-Type", handler.outputMimeType.s, "outputMimeType")>>
  ELSE IF isAObject(handler.outputMimeTypes)
  THEN IF indexOf(ObjectKeys(handler.outputMimeTypes), getType(assetName)) # -1
       THEN <<SetCall("Content-Type",
                      ObjectGet(handler.outputMimeTypes, getType(assetName)),
                      "outputMimeType")>>
       ELSE IF indexOf(ObjectKeys(handler.outputMimeTypes), "*") # -1
       THEN <<SetCall("Content-Type",
                      ObjectGet(handler.outputMimeTypes, "*"),
                      "outputMimeType")>>
       ELSE <<>>
  ELSE <<>>

\* /Content-Type/i.test(headerName)
isContentTypeName(headerName) ==
  headerName \in {"Content-Type", "content-type", "CONTENT-TYPE",
                  "X-Content-Type-Options"}

responseHeadersGuarded(handler) ==
  IF isAObject(handler.responseHeaders)
  THEN SelectSeq([i \in 1..Len(handler.responseHeaders.entries) |->
                    SetCall(handler.responseHeaders.entries[i][1],
                            handler.responseHeaders.entries[i][2],
                            "responseHeaders")],
                 LAMBDA c : ~isContentTypeName(c.name))
  ELSE <<>>

\* writeOutput: "Apply any specified response headers"
responseHeaders(handler) ==
  IF isAObject(handler.responseHeaders)
  THEN [i \in 1..Len(handler.responseHeaders.entries) |->
          SetCall(handler.responseHeaders.entries[i][1],
                  handler.responseHeaders.entries[i][2],
                  "responseHeaders")]
  ELSE <<>>

\* the calls of res.set made by writeOutput, in the order made
headers(handler, assetName) ==
  contentType(handler, assetName) \o responseHeaders(handler)

acceptsAny(handler, type) == TRUE

\* handler.extensions.indexOf(type) !== -1
accepts(handler, type) == indexOf(handler.extensions, type) # -1

NoBody == Null

EmptyStore ==
  [order |-> <<>>, cachedFiles |-> {}, cache |-> cache, warnings |-> <<>>,
   calls |-> <<>>, reads |-> <<>>, via |-> <<>>, lookups |-> <<>>,
   unloaded |-> {}, error |-> FALSE, overflow |-> FALSE]

\* req.query.skipCombiner of a request without that parameter
NoQuery == "undefined"

NoRequest ==
  [h |-> NoHandler, name |-> "", query |-> NoQuery, method |-> "get",
   next |-> 0, send |-> 0, body |-> NoBody,
   headers |-> <<>>, lookups |-> <<>>,
   order |-> <<>>, cachedFiles |-> {}, warnings |-> <<>>, calls |-> <<>>,
   reads |-> <<>>, via |-> <<>>, unloaded |-> {}, error |-> FALSE,
   overflow |-> FALSE, resolved |-> FALSE,
   epoch |-> 0, repeatOf |-> NoBody, cacheBefore |-> [p \in Paths |-> NoEntry]]

\* baseHandlerFn declining: return next()
declined(h, name) ==
  [res |-> [NoRequest EXCEPT !.h = h, !.name = name, !.next = 1,
                             !.epoch = nwrites, !.cacheBefore = cache],
   cache |-> cache]

\* handler.extensions.indexOf throws: neither next() nor res.send
thrown(h, name) ==
  [res |-> [NoRequest EXCEPT !.h = h, !.name = name, !.error = TRUE,
                             !.epoch = nwrites, !.cacheBefore = cache],
   cache |-> cache]

\* baseHandlerFn after the walk left valueStore as st: writeOutput and
\* res.send, unless an exception is propagating
responded(h, name, st) ==
  [res |->
     [h |-> h, name |-> name, query |-> NoQuery, method |-> "get",
      next |-> 0,
      send |-> IF ~st.error /\ ~st.overflow THEN 1 ELSE 0,
      body |-> IF ~st.error /\ ~st.overflow
               THEN output(handlers[h], st.order, st.cache)
               ELSE NoBody,
      headers |-> IF ~st.error /\ ~st.overflow
                  THEN headers(handlers[h], name)
                  ELSE <<>>,
      order |-> st.order, cachedFiles |-> st.cachedFiles,
      warnings |-> st.warnings, calls |-> st.calls,
      reads |-> st.reads, via |-> st.via, lookups |-> st.lookups,
      unloaded |-> st.unloaded, error |-> st.error,
      overflow |-> st.overflow, resolved |-> TRUE,
      epoch |-> nwrites, repeatOf |-> NoBody, cacheBefore |-> cache],
   cache |-> st.cache]

\* what baseHandlerFn(handler, req, res, next) does for a request of `name`
\* under the endpoint of handler h: the record of the request, and
\* CachedFile.cache as the request leaves it
baseHandlerFn(h, name) ==
  IF handlers[h].extensions = NoExtensions
  THEN thrown(h, name)
  ELSE IF ~accepts(handlers[h], getType(name))
  THEN declined(h, name)
  ELSE responded(h, name,
                 getAssetAndDependencies(name, h, EmptyStore, DepthLimit))

----------------------------------------------------------------------------
(* Configuration and file system.                                          *)

FS(path) == [type |-> FILE_SYSTEM, path |-> path]
NET(path) == [type |-> NETWORK, path |-> path]

\* a root written as a string in the configuration
RootString(path) == [type |-> "string", path |-> path]

\* one entry of config.handlers: the name it is written under and its
\* properties as the user wrote them
HandlerConfig(name, extensions, roots, plugins, fileSeparator) ==
  [name |-> name, extensions |-> extensions, roots |-> roots,
   plugins |-> plugins, fileSeparator |-> fileSeparator, method |-> Absent,
   outputMimeType |-> Absent, outputMimeTypes |-> Absent,
   responseHeaders |-> Absent]

\* handlerName.charAt(0) !== '/'  and  '/' + handlerName
slashed(handlerName) ==
  CASE handlerName = "js" -> "/js"
    [] handlerName = "none" -> "/none"
    [] OTHER -> handlerName

\* the properties of this.handlers, in the order for..in visits them
hasKey(live, key) == \E j \in 1..Len(live) : live[j].key = key

valueAt(live, key) == live[CHOOSE j \in 1..Len(live) : live[j].key = key].src

\* this.handlers[key] = handler: an existing property keeps its place, a new
\* one is added after the others
setKey(live, key, src) ==
  IF hasKey(live, key)
  THEN [j \in 1..Len(live) |->
          IF live[j].key = key THEN [key |-> key, src |-> src] ELSE live[j]]
  ELSE Append(live, [key |-> key, src |-> src])

\* delete this.handlers[key]
deleteKey(live, key) == SelectSeq(live, LAMBDA e : e.key # key)

\* "Ensure handlerName ... is prefixed with a forward slash character"
rekeyed(live, handlerName) ==
  IF slashed(handlerName) # handlerName
  THEN deleteKey(setKey(live, slashed(handlerName), valueAt(live, handlerName)),
                 handlerName)
  ELSE live

\* isA(Array, handler.extensions) && handler.extensions.length === 0
drops(handler) ==
  handler.extensions.t = "array" /\ Len(handler.extensions.entries) = 0

\* the loop over handler.roots throws at a root of type NETWORK: `array`
\* and `index` are not defined there
rootsThrow(roots) == \E i \in 1..Len(roots) : roots[i].type = NETWORK

\* handler.roots after the loop
parsedRoots(roots) ==
  [i \in 1..Len(roots) |->
     IF roots[i].type = "string" THEN FS(roots[i].path) ELSE roots[i]]

\* handler.plugins: a function is wrapped, anything but an array becomes []
parsedPlugins(plugins) ==
  IF plugins.t \in {"function", "array"} THEN plugins.entries ELSE <<>>

\* handler.method: "get" unless it contains the name of a known method
parsedMethod(method) ==
  CASE method = Str("POST") -> "post"
    [] method = Str("put") -> "put"
    [] method = Str("forget") -> "forget"
    [] OTHER -> "get"

\* a handler as parseHandlers leaves it under the key handlerName
parsedHandler(handlerName, handler) ==
  [handlerKey |-> handlerName,
   extensions |-> IF handler.extensions.t = "array"
                  THEN handler.extensions.entries ELSE NoExtensions,
   roots |-> parsedRoots(handler.roots),
   plugins |-> parsedPlugins(handler.plugins),
   fileSeparator |-> handler.fileSeparator,
   method |-> parsedMethod(handler.method),
   outputMimeType |-> handler.outputMimeType,
   outputMimeTypes |-> handler.outputMimeTypes,
   responseHeaders |-> handler.responseHeaders]

\* for (var handlerName in this.handlers) {...}: the names are those the
\* object had when the loop started; a deleted one is not visited
RECURSIVE parseHandlersFrom(_, _, _, _)
parseHandlersFrom(cfg, i, live, threw) ==
  IF i > Len(cfg) \/ threw THEN [live |-> live, threw |-> threw]
  ELSE IF ~hasKey(live, cfg[i].name)
  THEN parseHandlersFrom(cfg, i + 1, live, FALSE)
  ELSE IF drops(cfg[valueAt(live, cfg[i].name)])
  THEN parseHandlersFrom(cfg, i + 1,
         deleteKey(rekeyed(live, cfg[i].name), slashed(cfg[i].name)), FALSE)
  ELSE parseHandlersFrom(cfg, i + 1, rekeyed(live, cfg[i].name),
         rootsThrow(cfg[valueAt(live, cfg[i].name)].roots))

parsedLive(cfg) ==
  parseHandlersFrom(cfg, 1,
                    [i \in 1..Len(cfg) |-> [key |-> cfg[i].name, src |-> i]],
                    FALSE)

\* Combiner.prototype.parseHandlers on config.handlers = cfg: this.handlers
\* in for..in order, or the exception that ends the constructor
parseHandlers(cfg) ==
  [threw |-> parsedLive(cfg).threw,
   handlers |-> IF parsedLive(cfg).threw THEN <<>>
                ELSE [j \in 1..Len(parsedLive(cfg).live) |->
                        parsedHandler(parsedLive(cfg).live[j].key,
                                      cfg[parsedLive(cfg).live[j].src])]]

\* config.handlers: two handlers list ".js", none lists ".txt"; the first
\* has two roots naming the same directory; the last has no fileSeparator
DefaultConfig ==
  << [HandlerConfig("/js/", Arr(<<".js">>),
                    <<RootString("pub"), FS("pub/")>>,
                    Fn("wrap"), <<Txt(";")>>)
        EXCEPT !.outputMimeType = Str("text/javascript")],
     [HandlerConfig("/css/", Arr(<<".css">>), <<RootString("css")>>,
                    Arr(<<"throws", "mark">>), EmptyString)
        EXCEPT !.outputMimeTypes =
                 Obj(<< <<".css", "text/css">>, <<"*", "text/plain">> >>),
               !.responseHeaders = Obj(<< <<"ETag", "737060cd">> >>)],
     HandlerConfig("/lib/", Arr(<<".js", ".es6">>),
                   <<RootString("lib"), RootString("pub")>>,
                   Absent, Undefined) >>

NoFile == [exists |-> FALSE, mtime |-> 0, data |-> EmptyString]
File(data) == [exists |-> TRUE, mtime |-> MaxWrites + 1, data |-> data]

DiskOf(files) ==
  [p \in Paths |-> IF p \in DOMAIN files THEN File(files[p]) ELSE NoFile]

\* a diamond: a requires b and c, b requires c
Diamond ==
  (<<"pub", "a.js">> :> <<Req(<<"b.js", "c.JS">>), Txt("A")>>) @@
  (<<"pub", "b.js">> :> <<Req(<<"c.JS">>), Txt("B")>>) @@
  (<<"pub", "c.JS">> :> <<Txt("C")>>) @@
  (<<"css", "s.css">> :> <<Txt("S")>>)

\* a cycle a -> b -> a and a file requiring itself
Cycle ==
  (<<"pub", "a.js">> :> <<Req(<<"b.js">>), Txt("A")>>) @@
  (<<"pub", "b.js">> :> <<Req(<<"a.js", "c.JS">>), Txt("B")>>) @@
  (<<"pub", "c.JS">> :> <<Req(<<"c.JS">>), Txt("C")>>) @@
  (<<"css", "s.css">> :> <<Txt("S")>>)

\* a requires x.js, which exists nowhere, and then b
Missing ==
  (<<"pub", "a.js">> :> <<Req(<<"x.js", "b.js">>), Txt("A")>>) @@
  (<<"pub", "b.js">> :> <<Txt("B")>>) @@
  (<<"css", "s.css">> :> <<Txt("S")>>)

\* several directive occurrences, one of them malformed; a stylesheet
\* required from a script; b.js under two directories; n.txt, of a type no
\* handler lists, under lib only
Mixed ==
  (<<"pub", "a.js">> :> <<Req(<<"c.JS">>), BadReq, Txt("A"),
                          Req(<<"b.js", "s.css">>)>>) @@
  (<<"pub", "b.js">> :> <<Req(<<"c.JS", "n.txt">>), Txt("B")>>) @@
  (<<"lib", "b.js">> :> <<Txt("L")>>) @@
  (<<"lib", "n.txt">> :> <<Txt("N")>>) @@
  (<<"pub", "c.JS">> :> <<Req(<<"s.css">>), Txt("C")>>) @@
  (<<"css", "s.css">> :> <<Txt("S")>>)

Scenarios == {Diamond, Cycle, Missing, Mixed}

\* a requires c.JS and b.js; pub/c.JS exists and is a directory
Folder ==
  (<<"pub", "a.js">> :> <<Req(<<"c.JS", "b.js">>), Txt("A")>>) @@
  (<<"pub", "b.js">> :> <<Txt("B")>>) @@
  (<<"pub", "c.JS">> :> Directory) @@
  (<<"css", "s.css">> :> <<Txt("S")>>)

\* the requests made: handler, requested name and skipCombiner parameter
Requests ==
  { <<1, "a.js", NoQuery>>, <<1, "c.JS", NoQuery>>, <<1, "s.css", NoQuery>>,
    <<1, "x.js", NoQuery>>, <<2, "s.css", NoQuery>>, <<3, "b.js", NoQuery>>,
    <<1, "a.js", "true">>, <<2, "s.css", "TRUE">>, <<3, "b.js", "false">> }

\* the files that get modified
Writable == { <<"pub", "b.js">>, <<"css", "s.css">> }

----------------------------------------------------------------------------
(* combiners/Combiner.js: the promise-based Combiner.  One instance is     *)
(* used by one caller at a time.  A call of cacheFile is a node of `calls`: *)
(* its payload, its deferred and the promises of its requirements.  The    *)
(* reactions of the promises run on process.nextTick, that is before the   *)
(* next callback of the network, so that they are part of the step that    *)
(* made them ready.                                                        *)

LegacyNames == {"a.js", "b.js", "c.js", "d.js", "e.js"}

\* the body the static server answers for a path it does not have: request
\* reports no error for a 404
NotFound == <<Txt("Cannot GET")>>

SiteOf(files) ==
  [f \in LegacyNames |-> IF f \in DOMAIN files THEN files[f] ELSE NotFound]

NoPayload == [present |-> FALSE, body |-> <<>>]

NoCall ==
  [kind |-> "none", files |-> <<>>, rejectOnError |-> FALSE,
   promises |-> <<>>, state |-> "idle"]

NoResult == [set |-> FALSE, files |-> <<>>, order |-> <<>>, output |-> <<>>]

\* new Combiner(config) with config.jsRoot = jsRoot, and the pages the
\* server has
NewCombiner(site, jsRoot) ==
  [site |-> site, jsRoot |-> jsRoot, ROOTS |-> <<jsRoot>>,
   files |-> <<>>, requirements |-> {}, order |-> <<>>, output |-> <<>>,
   cache |-> [f \in LegacyNames |-> NoPayload],
   calls |-> <<>>, top |-> NoCall, ncalls |-> 0, failures |-> 0,
   prev |-> NoResult, overflow |-> FALSE]

\* the instance of a module that is not used
NoLegacy == NewCombiner(SiteOf(<<>>), ".")

\* Array.prototype.reverse
reverse(array) == [i \in 1..Len(array) |-> array[Len(array) + 1 - i]]

\* array.splice(index, 1), the index counted from 0
splice(array, index) ==
  SubSeq(array, 1, index) \o SubSeq(array, index + 2, Len(array))

\* payload.reqs.forEach(function(requirement, index, array) {...}) in
\* xhrSuccess: a requirement this.requirements has already is spliced out of
\* the array that is being visited; forEach goes through the indices below
\* the length the array had at the start and leaves out those the array has
\* no more
RECURSIVE markedFrom(_, _, _)
markedFrom(m, index, len) ==
  IF index >= len \/ index >= Len(m.reqs) THEN m
  ELSE markedFrom(
         IF m.reqs[index + 1] \notin m.requirements
         THEN [m EXCEPT !.requirements = @ \cup {m.reqs[index + 1]}]
         ELSE [m EXCEPT !.reqs = splice(@, index)],
         index + 1, len)

\* this.cache[key]
payloadAt(cch, key) == IF key \in DOMAIN cch THEN cch[key] ELSE NoPayload

\* pth.join(rootUri, item)
pthJoin(rootUri, item) ==
  IF rootUri = "." THEN item ELSE rootUri \o "/" \o item

\* the head of cacheFile: the payload and the deferred are made,
\* this.files.push(file) unless isRequirement, this.order.push(file)
called(st, file, rejectOnError, isRequirement, parent) ==
  [st EXCEPT
     !.files = IF isRequirement THEN @ ELSE Append(@, file),
     !.order = Append(@, file),
     !.calls = Append(@, [file |-> file, parent |-> parent,
                          rejectOnError |-> rejectOnError,
                          state |-> "fetching", error |-> FALSE,
                          body |-> <<>>, reqs |-> <<>>,
                          reqsPromise |-> <<>>])]

\* this.cache[file] = payload; defer.resolve(payload)
stored(st, idx, data) ==
  [st EXCEPT !.cache[st.calls[idx].file] = [present |-> TRUE, body |-> data],
             !.calls[idx].body = data,
             !.calls[idx].state = "resolved"]

\* xhrSuccess up to the second forEach: payload.body, payload.reqs and
\* this.requirements are set
withReqs(st, idx, data, m) ==
  [st EXCEPT !.requirements = m.requirements,
             !.calls[idx].body = data,
             !.calls[idx].reqs = m.reqs,
             !.calls[idx].state = "waiting"]

RECURSIVE cacheFile(_, _, _, _, _, _)
RECURSIVE cacheReqsFrom(_, _, _, _)

\* payload.reqs.forEach(function(req) {
\*   payload.reqsPromise.push(this.cacheFile(req, rejectOnError, true, locals))
\* })
cacheReqsFrom(st, idx, i, fuel) ==
  IF i > Len(st.calls[idx].reqs) \/ st.overflow THEN st
  ELSE cacheReqsFrom(
         cacheFile([st EXCEPT !.calls[idx].reqsPromise =
                                Append(@, Len(st.calls) + 1)],
                   st.calls[idx].reqs[i], st.calls[idx].rejectOnError,
                   TRUE, idx, fuel - 1),
         idx, i + 1, fuel)

\* xhrSuccess after payload.reqs = Combiner.parseCommentArray(data).reverse()
xhrParsed(st, idx, data, reqs, fuel) ==
  IF reqs = <<>> THEN stored(st, idx, data)
  ELSE cacheReqsFrom(
         withReqs(st, idx, data,
                  markedFrom([reqs |-> reqs, requirements |-> st.requirements],
                             0, Len(reqs))),
         idx, 1, fuel)

\* function xhrSuccess(data) of the call idx
xhrSuccess(st, idx, data, fuel) ==
  xhrParsed(st, idx, data, reverse(parseCommentArray(data)), fuel)

\* Combiner.prototype.cacheFile: a cached file is given to xhrSuccess at
\* once, another one is requested from the server
cacheFile(st, file, rejectOnError, isRequirement, parent, fuel) ==
  IF fuel = 0 THEN [st EXCEPT !.overflow = TRUE]
  ELSE IF payloadAt(st.cache, file).present
       THEN xhrSuccess(called(st, file, rejectOnError, isRequirement, parent),
                       Len(st.calls) + 1, payloadAt(st.cache, file).body,
                       fuel)
       ELSE called(st, file, rejectOnError, isRequirement, parent)

\* the callback of request.get with an error: payload.error is set and the
\* deferred is rejected if rejectOnError, resolved otherwise
failed(st, idx) ==
  [st EXCEPT !.calls[idx].error = TRUE,
             !.calls[idx].state = IF st.calls[idx].rejectOnError
                                  THEN "rejected" ELSE "resolved",
             !.failures = @ + 1]

settled(call) == call.state \in {"resolved", "rejected"}

\* every promise of the list is resolved or rejected
allSettled(calls, promises) ==
  \A k \in 1..Len(promises) : settled(calls[promises[k]])

\* Q.allSettled(payload.reqsPromise).then(...) of every call that waits:
\* a call is made after the call it is a requirement of, so the calls are
\* gone through from the last one
RECURSIVE settledFrom(_, _)
settledFrom(st, idx) ==
  IF idx = 0 THEN st
  ELSE settledFrom(
         IF /\ st.calls[idx].state = "waiting"
            /\ allSettled(st.calls, st.calls[idx].reqsPromise)
         THEN stored(st, idx, st.calls[idx].body)
         ELSE st,
         idx - 1)

\* this.order.forEach(function(item) {...}) of readFiles: the body of every
\* item that this.cache has under pth.join(rootUri, item)
RECURSIVE outputFrom(_, _, _, _, _)
outputFrom(order, i, rootUri, cch, out) ==
  IF i > Len(order) THEN out
  ELSE outputFrom(order, i + 1, rootUri, cch,
                  IF payloadAt(cch, pthJoin(rootUri, order[i])).present
                  THEN out \o payloadAt(cch, pthJoin(rootUri, order[i])).body
                  ELSE out)

\* Q.allSettled(promises).then(...) of readFiles: this.order.reverse(), the
\* output is built, defer.resolve(result)
readFilesProcessed(st) ==
  [st EXCEPT !.order = reverse(@),
             !.output = outputFrom(reverse(st.order), 1, st.jsRoot, st.cache,
                                   <<>>),
             !.top.state = "resolved"]

\* the promise the caller holds settles
answered(st) ==
  IF st.top.state = "pending" /\ allSettled(st.calls, st.top.promises)
  THEN IF st.top.kind = "readFiles" THEN readFilesProcessed(st)
       ELSE [st EXCEPT !.top.state = st.calls[1].state]
  ELSE st

\* the reactions that are ready run before the next callback
nextTick(st) == answered(settledFrom(st, Len(st.calls)))

\* a new call by the user of the instance; the result of the call before
\* is remembered
begun(st, kind, files, rejectOnError) ==
  [st EXCEPT
     !.calls = <<>>,
     !.top = [kind |-> kind, files |-> files, rejectOnError |-> rejectOnError,
              promises |-> <<>>, state |-> "pending"],
     !.ncalls = @ + 1,
     !.prev = IF st.top.kind = "readFiles" /\ st.top.state = "resolved"
              THEN [set |-> TRUE, files |-> st.top.files, order |-> st.order,
                    output |-> st.output]
              ELSE @]

\* files.forEach(function(file) {
\*   promises.push(this.cacheFile(file, undefined, undefined, locals)) })
RECURSIVE filesFrom(_, _, _)
filesFrom(st, files, i) ==
  IF i > Len(files) \/ st.overflow THEN st
  ELSE filesFrom(
         cacheFile([st EXCEPT !.top.promises = Append(@, Len(st.calls) + 1)],
                   files[i], FALSE, FALSE, 0, DepthLimit),
         files, i + 1)

\* this.ROOTS.forEach(function(root) { files.forEach(...) })
RECURSIVE rootsFrom(_, _, _)
rootsFrom(st, files, r) ==
  IF r > Len(st.ROOTS) THEN st
  ELSE rootsFrom(filesFrom(st, files, 1), files, r + 1)

\* Combiner.prototype.readFiles(filesToRead, locals), up to its return
readFiles(st, filesToRead) == rootsFrom(st, filesToRead, 1)

----------------------------------------------------------------------------
(* middleware/Preprocessor.js and its subclasses LESSPreprocessor.js and   *)
(* SASSPreprocessor.js.  Every stage of a request has a Q deferred:        *)
(* pending, resolved or rejected, and the first settlement wins.  The      *)
(* reactions of a settled promise run before the next I/O callback.  A     *)
(* subclass written by the user is given by what its hooks do.             *)

\* Preprocessor.FILE_SYSTEM, NETWORK, BOTH_FS_AND_NET, and a configuration
\* that names none of them
CheckFileSystem == "Check the file system instead"
CheckNetwork == "Check the URL if present, instead, by making a network call"
CheckBoth == "File only exists if both are positive results"
NoPrecedence == "undefined"

Preprocessors == {"Preprocessor", "LESSPreprocessor", "SASSPreprocessor",
                  "subclass"}

\* what the hooks of a subclass do with the deferred they are given: settle
\* it, settle it twice, leave it to a callback, or throw
HookSets ==
  [sp : {"resolve", "reject", "rejectThenResolve"},
   dan : {"path", "resolve", "reject", "throw"},
   mw : {"resolve", "reject", "later", "throw"}]

NoHooks == [sp |-> "reject", dan |-> "reject", mw |-> "reject"]

NoPreprocessing ==
  [kind |-> "Preprocessor", hooks |-> NoHooks, lessRoot |-> FALSE,
   existencePrecedence |-> NoPrecedence, url |-> "s.css",
   sp |-> "none", dan |-> "none", dae |-> "none", mw |-> "none",
   pathToAsset |-> FALSE, io |-> "none", next |-> 0, threw |-> FALSE,
   uncaught |-> FALSE, n |-> 0]

\* middleware(req, res, next) is entered: valueStore = {req, res, app}
entered(st, kind, hooks, lessRoot, precedence, url) ==
  [NoPreprocessing EXCEPT !.kind = kind, !.hooks = hooks,
                          !.lessRoot = lessRoot,
                          !.existencePrecedence = precedence, !.url = url,
                          !.n = st.n + 1]

\* var defer = Q.defer() of a stage
defer(st, stage) == [st EXCEPT ![stage] = "pending"]

\* deferred.resolve(...) and deferred.reject(...)
resolve(st, stage) == [st EXCEPT ![stage] = settle(@, "resolved")]
reject(st, stage) == [st EXCEPT ![stage] = settle(@, "rejected")]

\* an exception inside a promise reaction rejects the promise that `then`
\* returned, which nobody holds
thrownInReaction(st) == [st EXCEPT !.threw = TRUE]

\* an exception inside an I/O callback has no caller to catch it
thrownUncaught(st) == [st EXCEPT !.uncaught = TRUE]

\* what a hook of a subclass does
hook(st, stage, does) ==
  CASE does = "resolve" -> resolve(st, stage)
    [] does = "reject" -> reject(st, stage)
    [] does = "rejectThenResolve" -> resolve(reject(st, stage), stage)
    [] does = "path" -> resolve([st EXCEPT !.pathToAsset = TRUE], stage)
    [] does = "later" -> [st EXCEPT !.io = "subclass"]
    [] OTHER -> thrownInReaction(st)

\* _shouldPreprocess: the base class rejects; LESSPreprocessor and
\* SASSPreprocessor both test config.lessRoot and resolve after rejecting
_shouldPreprocess(st) ==
  CASE st.kind = "Preprocessor" -> reject(st, "sp")
    [] st.kind = "subclass" -> hook(st, "sp", st.hooks.sp)
    [] OTHER -> resolve(IF ~st.lessRoot THEN reject(st, "sp") ELSE st, "sp")

\* the extensions a subclass accepts; SASSPreprocessor lowers the case
accepted(st) ==
  CASE st.kind = "LESSPreprocessor" -> extname(st.url) \in {".less"}
    [] st.kind = "SASSPreprocessor" ->
         toLowerCase(extname(st.url)) \in {".sass", ".scss"}
    [] OTHER -> FALSE

\* _determineAssetName: the base class rejects; LESSPreprocessor and
\* SASSPreprocessor reject another extension and then read `config`, which
\* no scope of their modules declares: a ReferenceError
_determineAssetName(st) ==
  CASE st.kind = "Preprocessor" -> reject(st, "dan")
    [] st.kind = "subclass" -> hook(st, "dan", st.hooks.dan)
    [] OTHER -> IF ~accepted(st) THEN reject(st, "dan") ELSE thrownInReaction(st)

\* _doesAssetExist, which no subclass overrides
_doesAssetExist(st) ==
  IF st.existencePrecedence = CheckNetwork THEN reject(st, "dae")
  ELSE IF ~st.pathToAsset THEN reject(st, "dae")
  ELSE [st EXCEPT !.io = "exists"]

\* _middleware: the base class rejects; LESSPreprocessor reads the file and
\* SASSPreprocessor renders it
_middleware(st) ==
  CASE st.kind = "Preprocessor" -> reject(st, "mw")
    [] st.kind = "subclass" -> hook(st, "mw", st.hooks.mw)
    [] st.kind = "LESSPreprocessor" -> [st EXCEPT !.io = "readFile"]
    [] OTHER -> [st EXCEPT !.io = "render"]

\* next()
callNext(st) == [st EXCEPT !.next = @ + 1]

_middlewareBreakingChainNext(st) == callNext(st)

_middlewareBreakingChain(st) == st

\* defer.promise.then(_middlewareReadyForNext, _middlewareBreakingChain)
middlewareSettled(st) ==
  CASE st.mw = "resolved" -> callNext(st)
    [] st.mw = "rejected" -> _middlewareBreakingChain(st)
    [] OTHER -> st

_daeSuccess(st) == middlewareSettled(_middleware(defer(st, "mw")))

\* self.doesAssetExist(valueStore).then(_daeSuccess, _daeFailure)
existenceSettled(st) ==
  CASE st.dae = "resolved" -> _daeSuccess(st)
    [] st.dae = "rejected" -> callNext(st)
    [] OTHER -> st

_danSuccess(st) == existenceSettled(_doesAssetExist(defer(st, "dae")))

\* self.determineAssetName(valueStore).then(_danSuccess, _danFailure)
nameSettled(st) ==
  CASE st.dan = "resolved" -> _danSuccess(st)
    [] st.dan = "rejected" -> callNext(st)
    [] OTHER -> st

_spSuccess(st) == nameSettled(_determineAssetName(defer(st, "dan")))

\* this.shouldPreprocess(valueStore).then(_spSuccess, _spFailure)
_preprocessor_middleware(st) ==
  LET should == _shouldPreprocess(defer(st, "sp"))
  IN  CASE should.sp = "resolved" -> _spSuccess(should)
        [] should.sp = "rejected" -> callNext(should)
        [] OTHER -> should

\* the callback of fs.exists in _doesAssetExist
existsCallback(st, exists) ==
  existenceSettled(IF exists THEN resolve(st, "dae") ELSE reject(st, "dae"))

\* the callback of fs.readFile in LESSPreprocessor._middleware: with an
\* error it resolves the deferred and goes on to contents.toString() with
\* contents undefined; otherwise less.render starts
lessReadCallback(st, err) ==
  IF err THEN middlewareSettled(thrownUncaught(resolve(st, "mw")))
  ELSE [st EXCEPT !.io = "render"]

\* the promise of less.render: its reaction reads `file`, which no scope
\* declares, and a rejection has no reaction at all
lessRendered(st, err) == IF err THEN st ELSE thrownInReaction(st)

\* the callback of sass.render in SASSPreprocessor._middleware: with an
\* error it resolves the deferred twice; otherwise it reads `file`, which
\* no scope declares
sassRenderCallback(st, err) ==
  IF err THEN middlewareSettled(resolve(resolve(st, "mw"), "mw"))
  ELSE thrownUncaught(st)

\* the subclass settles the deferred of _middleware from a callback
subclassCallback(st, err) ==
  middlewareSettled(IF err THEN reject(st, "mw") ELSE resolve(st, "mw"))

\* the pending I/O callback of the request fires
preprocessorCallback(st, err) ==
  LET now == [st EXCEPT !.io = "none"]
  IN  CASE st.io = "exists" -> existsCallback(now, ~err)
        [] st.io = "readFile" -> lessReadCallback(now, err)
        [] st.io = "render" /\ st.kind = "LESSPreprocessor" ->
             lessRendered(now, err)
        [] st.io = "render" -> sassRenderCallback(now, err)
        [] OTHER -> subclassCallback(now, err)

----------------------------------------------------------------------------
(* plugins/BabelPlugin.js and plugins/NPMPlugin.js.  A factory keeps its   *)
(* configuration in a variable of its closure (babelCfg, npmCfg), which    *)
(* the plugin it returns reads and changes on every invocation.            *)

BabelDefaults == <<".js", ".es6", ".es2015">>

\* extend(true, target, source): the properties of source are copied over
\* those of target, key by key; for two arrays, index by index
extend(target, source) ==
  [k \in DOMAIN target \cup DOMAIN source |->
     IF k \in DOMAIN source THEN source[k] ELSE target[k]]

\* __generateBabelPlugin(config) and __generateNPMPlugin(config): the
\* closure of the plugin; built, n, extension, onPath and attempted record
\* the configuration as built and the last invocation
__generatePlugin(kind, extensions) ==
  [kind |-> kind, extensions |-> extend(BabelDefaults, extensions),
   deleted |-> FALSE, built |-> extend(BabelDefaults, extensions),
   n |-> 0, extension |-> "", onPath |-> FALSE, attempted |-> FALSE]

NoPlugin == __generatePlugin("BabelPlugin", <<>>)

\* cfg.extensions || [...]: the list of this invocation
extensionsOf(plugin) ==
  IF ~plugin.deleted THEN plugin.extensions
  ELSE IF plugin.kind = "BabelPlugin" THEN <<".es6", ".es2015">>
  ELSE <<".js", ".es6", ".es2015">>

\* BabelPlugin(data, synchronous, extension) and NPMPlugin(data,
\* synchronous, extension) with this.path: the plugin goes on to transform
\* the data when the extension is in the list and, for NPMPlugin, the path
\* holds one of requiredPathParts
invoked(plugin, extension, onPath) ==
  [plugin EXCEPT
     !.deleted = TRUE, !.n = @ + 1,
     !.extension = extension, !.onPath = onPath,
     !.attempted = /\ indexOf(extensionsOf(plugin), extension) # -1
                   /\ plugin.kind = "NPMPlugin" => onPath]

----------------------------------------------------------------------------
(* What the Combiner instances of one process share: the static property   *)
(* Combiner.NETWORK_DEFAULTS and the cache getter of the CachedFile module *)
(* (_getCache).  A cache is an object, created by a constructor and kept   *)
(* in app.locals.cachedFileCache; `objects` holds the keys of each.        *)

\* Combiner.NETWORK_DEFAULTS as written, with process.env.PORT unset
NETWORK_DEFAULTS ==
  [protocol |-> "http:", hostname |-> "localhost", port |-> "3000"]

Apps == {"app", "admin"}

\* the process after require(): the getter returns the cache of the module,
\* object 1
NoProcess ==
  [NETWORK_DEFAULTS |-> NETWORK_DEFAULTS, getter |-> "module",
   locals |-> [a \in Apps \cup {"module"} |-> 1], objects |-> << {} >>,
   instances |-> <<>>]

\* CachedFile.cache: the object that _getCache() returns now
CachedFileCache(st) == st.locals[st.getter]

\* this.parseNetworkDefaults(): extend(true, Combiner.NETWORK_DEFAULTS,
\* this.config.networkDefaults || {}) writes into its first argument
parseNetworkDefaults(st, networkDefaults) ==
  [st EXCEPT !.NETWORK_DEFAULTS = extend(@, networkDefaults)]

\* new Combiner(app, config): a new cache object in app.locals, the getter
\* replaced by one that reads app.locals, the network defaults parsed; the
\* instance is recorded with the cache object it was constructed with
Combiner(st, app, networkDefaults) ==
  LET made == [st EXCEPT !.objects = Append(@, {}),
                         !.locals[app] = Len(st.objects) + 1,
                         !.getter = app]
      parsedDefaults == parseNetworkDefaults(made, networkDefaults)
  IN  [parsedDefaults EXCEPT
         !.instances = Append(@, [app |-> app,
                                  cache |-> Len(st.objects) + 1,
                                  networkDefaults |->
                                    parsedDefaults.NETWORK_DEFAULTS])]

\* an instance loads a file: new CachedFile(...) stores itself in
\* CachedFile.cache
cached(st, assetName) ==
  [st EXCEPT !.objects[CachedFileCache(st)] = @ \cup {assetName}]

----------------------------------------------------------------------------
(* The JSCombiner and CSSCombiner middleware: JSCombiner.js, CSSCombiner.js *)
(* and their copies in combiners/Combiner.js.  The application holds the   *)
(* Combiner instances (req.app.jsCombiner, req.app.cssCombiner); readFiles *)
(* returns a promise that is settled later.                                *)

Middlewares ==
  {"JSCombiner.js", "CSSCombiner.js", "Combiner.js/JSCombiner",
   "Combiner.js/CSSCombiner"}

NoMiddleware ==
  [kind |-> "", url |-> "", query |-> NoQuery, next |-> 0, readFiles |-> 0,
   send |-> 0, threw |-> FALSE, pending |-> FALSE, headers |-> <<>>]

skipsExactly(skipCombiner) == skipCombiner = "true"

\* skipCombiner && skipCombiner.toLowerCase() === "true"
skips(skipCombiner) ==
  /\ skipCombiner \notin {NoQuery, ""}
  /\ toLowerCase(skipCombiner) = "true"

\* pth.basename(req.url).indexOf(jsCombiner.config.suffix) !== -1, with the
\* default suffix ".packaged"
hasSuffix(url) == url = "a.packaged.js"

\* cssLog is declared in combiners/Combiner.js and not in CSSCombiner.js
cssLogDefined(kind) == kind # "CSSCombiner.js"

\* what the middleware does with a request it does not skip
combines(kind, url) ==
  IF kind \in {"JSCombiner.js", "Combiner.js/JSCombiner"}
  THEN IF ~hasSuffix(url) THEN "readFiles" ELSE "next"
  ELSE IF ~cssLogDefined(kind) THEN "throw"
  ELSE IF indexOf(<<".sass", ".scss", ".less", ".css">>, getType(url)) # -1
       THEN "readFiles" ELSE "next"

\* function JSCombiner(req, res, next), function CSSCombiner(req, res, next)
middleware(kind, url, query) ==
  IF skips(query)
  THEN [NoMiddleware EXCEPT !.kind = kind, !.url = url, !.query = query,
                            !.next = 1]
  ELSE [NoMiddleware EXCEPT
          !.kind = kind, !.url = url, !.query = query,
          !.next = IF combines(kind, url) = "next" THEN 1 ELSE 0,
          !.readFiles = IF combines(kind, url) = "readFiles" THEN 1 ELSE 0,
          !.pending = combines(kind, url) = "readFiles",
          !.threw = combines(kind, url) = "throw"]

\* a request reaches one of the middleware
Middleware(kind, url, query) ==
  /\ nreq < MaxRequests
  /\ ~mw.pending
  /\ mw' = middleware(kind, url, query)
  /\ nreq' = nreq + 1
  /\ UNCHANGED <<disk, cache, res, served, nwrites, handlers, config, aio,
                 parse, lg,
                 pp, pl, proc>>

\* the promise of readFiles is resolved: the callback passed to then() sets
\* the Content-Type and sends the output; when it is rejected nothing runs
ReadFilesSettled(resolved) ==
  /\ mw.pending
  /\ mw' = [mw EXCEPT
             !.pending = FALSE,
             !.headers = IF ~resolved THEN <<>>
                         ELSE IF mw.kind \in {"JSCombiner.js",
                                              "Combiner.js/JSCombiner"}
                         THEN <<SetCall("Content-Type", "text/javascript",
                                        "middleware")>>
                         ELSE <<SetCall("Content-Type", "text/css",
                                        "middleware")>>,
             !.send = IF resolved THEN 1 ELSE 0]
  /\ UNCHANGED <<disk, cache, res, served, nreq, nwrites, handlers, config,
                 aio, parse, lg,
                 pp, pl, proc>>

MiddlewareUrls == {"a.js", "a.packaged.js", "s.css", "s.LESS", "n.txt"}

SkipValues == {NoQuery, "", "true", "TRUE", "tRuE", "false", "FALSE", "1"}

InitMiddleware ==
  /\ config = DefaultConfig
  /\ handlers = parseHandlers(config).handlers
  /\ disk = DiskOf(Diamond)
  /\ cache = [p \in Paths |-> NoEntry]
  /\ res = NoRequest
  /\ served = {}
  /\ nreq = 0
  /\ nwrites = 0
  /\ mw = NoMiddleware
  /\ aio = NoRead
  /\ parse = NoParse
  /\ pp = NoPreprocessing
  /\ pl = NoPlugin
  /\ proc = NoProcess
  /\ lg = NoLegacy

NextMiddleware ==
  \/ \E kind \in Middlewares, url \in MiddlewareUrls, query \in SkipValues :
       Middleware(kind, url, query)
  \/ \E resolved \in BOOLEAN : ReadFilesSettled(resolved)

SpecMiddleware == InitMiddleware /\ [][NextMiddleware]_vars

----------------------------------------------------------------------------
(* The state machine.                                                      *)

Init ==
  /\ config = DefaultConfig
  /\ handlers = parseHandlers(config).handlers
  /\ disk \in {DiskOf(files) : files \in Scenarios}
  /\ cache = [p \in Paths |-> NoEntry]
  /\ res = NoRequest
  /\ served = {}
  /\ nreq = 0
  /\ nwrites = 0
  /\ mw = NoMiddleware
  /\ aio = NoRead
  /\ parse = NoParse
  /\ pp = NoPreprocessing
  /\ pl = NoPlugin
  /\ proc = NoProcess
  /\ lg = NoLegacy

\* the bodies sent since the last file change, with this request's
servedWith(h, name, r) ==
  IF r.res.send = 1
  THEN {s \in served : ~(s.h = h /\ s.name = name)} \cup
       {[h |-> h, name |-> name, body |-> r.res.body]}
  ELSE served

\* the body sent before for the same request, if any
servedBefore(h, name) ==
  IF \E s \in served : s.h = h /\ s.name = name
  THEN (CHOOSE s \in served : s.h = h /\ s.name = name).body
  ELSE NoBody

Handled(h, name, query, r) ==
  /\ res' = [r.res EXCEPT !.repeatOf = servedBefore(h, name),
                          !.query = query]
  /\ cache' = r.cache
  /\ served' = servedWith(h, name, r)

\* one request handled by baseHandlerFn: the path is `name` under the
\* endpoint of handler h, and req.query.skipCombiner is `query`
Request(h, name, query) ==
  /\ nreq < MaxRequests
  /\ ~aio.escaped
  /\ h \in 1..Len(handlers)
  /\ Handled(h, name, query, baseHandlerFn(h, name))
  /\ nreq' = nreq + 1
  /\ UNCHANGED <<disk, nwrites, handlers, config, mw, aio, parse, lg,
                 pp, pl, proc>>

\* this.app.use(endpoint, handler.middleware, handlerFn): a function mounted
\* with use() runs for the requests of every method under the endpoint
routed(handler, method) == TRUE

\* req.method of the request the handler function was called for
withMethod(r, method) == [r EXCEPT !.res.method = method]

\* one request of any HTTP method under the endpoint of handler h
RequestBy(method, h, name, query) ==
  /\ nreq < MaxRequests
  /\ ~aio.escaped
  /\ h \in 1..Len(handlers)
  /\ routed(handlers[h], method)
  /\ Handled(h, name, query, withMethod(baseHandlerFn(h, name), method))
  /\ nreq' = nreq + 1
  /\ UNCHANGED <<disk, nwrites, handlers, config, mw, aio, parse, lg,
                 pp, pl, proc>>

\* a file is rewritten on disk: its content changes and its modification
\* time moves forward (delta = 1) or backward (delta = -1)
WriteFile(p, delta) ==
  /\ nwrites < MaxWrites
  /\ disk[p].exists
  /\ disk' = [disk EXCEPT ![p].data = @ \o <<Txt("+")>>,
                          ![p].mtime = @ + delta]
  /\ served' = {}
  /\ nwrites' = nwrites + 1
  /\ UNCHANGED <<cache, res, nreq, handlers, config, mw, aio, parse, lg,
                 pp, pl, proc>>

Next ==
  \/ \E r \in Requests : Request(r[1], r[2], r[3])
  \/ \E p \in Writable, delta \in {-1, 1} : WriteFile(p, delta)

Spec == Init /\ [][Next]_vars

----------------------------------------------------------------------------
(* The same requests and writes over a root that holds a directory under   *)
(* the name of an asset.                                                   *)

InitFolder ==
  /\ config = DefaultConfig
  /\ handlers = parseHandlers(config).handlers
  /\ disk = DiskOf(Folder)
  /\ cache = [p \in Paths |-> NoEntry]
  /\ res = NoRequest
  /\ served = {}
  /\ nreq = 0
  /\ nwrites = 0
  /\ mw = NoMiddleware
  /\ aio = NoRead
  /\ parse = NoParse
  /\ pp = NoPreprocessing
  /\ pl = NoPlugin
  /\ proc = NoProcess
  /\ lg = NoLegacy

SpecFolder == InitFolder /\ [][Next]_vars

----------------------------------------------------------------------------
(* One handler with every plugin list up to MaxPlugins, serving the        *)
(* diamond: each request loads its files through runPlugins.               *)

RECURSIVE SeqsUpTo(_, _)
SeqsUpTo(S, n) ==
  IF n = 0 THEN {<<>>}
  ELSE SeqsUpTo(S, n - 1) \cup
       {Append(q, x) : q \in {t \in SeqsUpTo(S, n - 1) : Len(t) = n - 1},
                       x \in S}

PluginConfig(plugins) ==
  << HandlerConfig("/js/", Arr(<<".js">>), <<RootString("pub")>>,
                   Arr(plugins), <<Txt(";")>>) >>

InitPlugins ==
  /\ config \in {PluginConfig(ps) : ps \in SeqsUpTo(PluginKinds, MaxPlugins)}
  /\ handlers = parseHandlers(config).handlers
  /\ disk = DiskOf(Diamond)
  /\ cache = [p \in Paths |-> NoEntry]
  /\ res = NoRequest
  /\ served = {}
  /\ nreq = 0
  /\ nwrites = 0
  /\ mw = NoMiddleware
  /\ aio = NoRead
  /\ parse = NoParse
  /\ pp = NoPreprocessing
  /\ pl = NoPlugin
  /\ proc = NoProcess
  /\ lg = NoLegacy

NextPlugins == \E name \in {"a.js", "b.js"} : Request(1, name, NoQuery)

SpecPlugins == InitPlugins /\ [][NextPlugins]_vars

----------------------------------------------------------------------------
(* One handler with every combination of outputMimeType, outputMimeTypes   *)
(* and responseHeaders below, serving scripts and stylesheets.             *)

MimeTypeOptions == {Absent, Str("text/javascript"), Str("")}

MimeMapOptions ==
  { Absent,
    Obj(<< <<".js", "application/javascript">>, <<"*", "text/plain">> >>),
    Obj(<< <<"*", "text/plain">>, <<".css", "text/css">> >>),
    Obj(<< <<".JS", "text/upper">> >>) }

ResponseHeaderOptions ==
  { Absent,
    Obj(<< <<"ETag", "737060cd">>, <<"Expires", "Thu, 01 Dec 1994">> >>),
    Obj(<< <<"content-type", "text/override">> >>),
    Obj(<< <<"X-Content-Type-Options", "nosniff">>,
           <<"Content-Type", "application/override">>,
           <<"ETag", "737060cd">> >>) }

HeaderConfig(mimeType, mimeTypes, respHeaders) ==
  << [HandlerConfig("/assets/", Arr(<<".js", ".css">>),
                    <<RootString("pub"), RootString("css")>>,
                    Absent, Undefined)
        EXCEPT !.outputMimeType = mimeType, !.outputMimeTypes = mimeTypes,
               !.responseHeaders = respHeaders] >>

InitHeaders ==
  /\ config \in {HeaderConfig(mt, mts, rh) :
                   mt \in MimeTypeOptions, mts \in MimeMapOptions,
                   rh \in ResponseHeaderOptions}
  /\ handlers = parseHandlers(config).handlers
  /\ disk = DiskOf(Diamond)
  /\ cache = [p \in Paths |-> NoEntry]
  /\ res = NoRequest
  /\ served = {}
  /\ nreq = 0
  /\ nwrites = 0
  /\ mw = NoMiddleware
  /\ aio = NoRead
  /\ parse = NoParse
  /\ pp = NoPreprocessing
  /\ pl = NoPlugin
  /\ proc = NoProcess
  /\ lg = NoLegacy

NextHeaders ==
  \E name \in {"b.js", "c.JS", "s.css", "n.txt"} : Request(1, name, NoQuery)

SpecHeaders == InitHeaders /\ [][NextHeaders]_vars

----------------------------------------------------------------------------
(* Configurations written by the user: up to MaxHandlers of the entries    *)
(* below, in any order.  Some names lack the leading '/', one entry has an *)
(* empty extensions list, one has none, one has a network root, and two    *)
(* names become the same key.                                              *)

ConfigEntries ==
  { HandlerConfig("js", Arr(<<".js">>), <<RootString("pub")>>,
                  Fn("mark"), <<Txt(";")>>),
    HandlerConfig("/lib/", Arr(<<".js", ".es6">>), <<RootString("lib")>>,
                  Absent, Undefined),
    [HandlerConfig("/css/", Arr(<<".css">>), <<FS("css")>>,
                   Arr(<<>>), EmptyString) EXCEPT !.method = Str("POST")],
    HandlerConfig("/empty/", Arr(<<>>), <<NET("cdn")>>, Absent, Undefined),
    HandlerConfig("none", Absent, <<RootString("pub")>>, Absent, Undefined),
    HandlerConfig("/net/", Arr(<<".js">>),
                  <<RootString("pub"), NET("cdn")>>, Absent, Undefined),
    HandlerConfig("/js", Arr(<<".js">>), <<RootString("lib")>>,
                  Absent, Undefined) }

\* the property names of an object literal are distinct
Configs ==
  {c \in SeqsUpTo(ConfigEntries, MaxHandlers) :
     /\ c # <<>>
     /\ \A i, j \in 1..Len(c) : c[i].name = c[j].name => i = j}

InitConfig ==
  /\ config \in Configs
  /\ handlers = parseHandlers(config).handlers
  /\ disk = DiskOf(Mixed)
  /\ cache = [p \in Paths |-> NoEntry]
  /\ res = NoRequest
  /\ served = {}
  /\ nreq = 0
  /\ nwrites = 0
  /\ mw = NoMiddleware
  /\ aio = NoRead
  /\ parse = NoParse
  /\ pp = NoPreprocessing
  /\ pl = NoPlugin
  /\ proc = NoProcess
  /\ lg = NoLegacy

NextConfig ==
  \E h \in 1..MaxHandlers, name \in {"a.js", "b.js"} :
    Request(h, name, NoQuery)

SpecConfig == InitConfig /\ [][NextConfig]_vars

\* the methods of the requests made
Methods == {"get", "post"}

NextMethods ==
  \E method \in Methods, h \in 1..MaxHandlers, name \in {"a.js", "s.css"} :
    RequestBy(method, h, name, NoQuery)

\* the handlers of a configuration receive requests of several methods
SpecMethods == InitConfig /\ [][NextMethods]_vars

----------------------------------------------------------------------------
(* Asynchronous reads of cached and uncached files.                        *)

AsyncPaths ==
  { <<"pub", "a.js">>, <<"pub", "b.js">>, <<"pub", "x.js">>,
    <<"css", "s.css">>, <<"lib", "n.txt">> }

NextAsync ==
  \/ \E r \in Requests : Request(r[1], r[2], r[3])
  \/ \E path \in AsyncPaths : ReadFileAsync(path)
  \/ \E err \in BOOLEAN : IoCallback(err)

SpecAsync == Init /\ [][NextAsync]_vars

----------------------------------------------------------------------------
(* Combiner.parseCommentArray on every text of up to MaxTokens pieces.     *)

Pieces ==
  { Txt("A"), BadReq, Req(<<"a.js">>), Req(<<"b.js", "c.JS">>),
    Req(<<"lib//u.js", "s.css">>), Req(<<"g*.js">>),
    BadReqOf(<<"x.js", "b.js">>) }

InitParser ==
  /\ config = DefaultConfig
  /\ handlers = parseHandlers(config).handlers
  /\ disk = DiskOf(Diamond)
  /\ cache = [p \in Paths |-> NoEntry]
  /\ res = NoRequest
  /\ served = {}
  /\ nreq = 0
  /\ nwrites = 0
  /\ mw = NoMiddleware
  /\ aio = NoRead
  /\ parse \in {[NoParse EXCEPT !.source = t] :
                  t \in SeqsUpTo(Pieces, MaxTokens)}
  /\ pp = NoPreprocessing
  /\ pl = NoPlugin
  /\ proc = NoProcess
  /\ lg = NoLegacy

\* the call has returned o.results, or has thrown
parsed(source, o) ==
  [source |-> source, results |-> o.results, threw |-> o.threw, done |-> TRUE]

\* Combiner.parseCommentArray(source)
Parse ==
  /\ ~parse.done
  /\ parse' = parsed(parse.source, parseOutcome(parse.source))
  /\ UNCHANGED <<disk, cache, res, served, nreq, nwrites, handlers, config,
                 mw, aio, lg,
                 pp, pl, proc>>

NextParser == Parse

SpecParser == InitParser /\ [][NextParser]_vars

----------------------------------------------------------------------------
(* The promise-based Combiner: readFiles and cacheFile are called on one   *)
(* instance, one call after the other; the requests to the server answer   *)
(* in any order, at most MaxFailures of them with an error.                *)

\* a requires b and c, b requires c
LegacyDiamond ==
  ("a.js" :> <<Req(<<"b.js", "c.js">>), Txt("A")>>) @@
  ("b.js" :> <<Req(<<"c.js">>), Txt("B")>>) @@
  ("c.js" :> <<Txt("C")>>)

\* a requires b and c, b requires d, c requires e
LegacyFork ==
  ("a.js" :> <<Req(<<"b.js", "c.js">>), Txt("A")>>) @@
  ("b.js" :> <<Req(<<"d.js">>), Txt("B")>>) @@
  ("c.js" :> <<Req(<<"e.js">>), Txt("C")>>) @@
  ("d.js" :> <<Txt("D")>>) @@
  ("e.js" :> <<Txt("E")>>)

\* a and b require each other
LegacyCycle ==
  ("a.js" :> <<Req(<<"b.js">>), Txt("A")>>) @@
  ("b.js" :> <<Req(<<"a.js">>), Txt("B")>>)

LegacySites == {LegacyDiamond, LegacyFork, LegacyCycle}

\* the jsRoot the instances are configured with
LegacyRoots == {".", "js"}

\* the lists given to readFiles, and the files given to cacheFile
LegacyBundles == { <<"a.js">>, <<"e.js">> }
LegacyFiles == {"a.js"}

InitLegacy ==
  /\ config = DefaultConfig
  /\ handlers = parseHandlers(config).handlers
  /\ disk = DiskOf(Diamond)
  /\ cache = [p \in Paths |-> NoEntry]
  /\ res = NoRequest
  /\ served = {}
  /\ nreq = 0
  /\ nwrites = 0
  /\ mw = NoMiddleware
  /\ aio = NoRead
  /\ parse = NoParse
  /\ pp = NoPreprocessing
  /\ pl = NoPlugin
  /\ proc = NoProcess
  /\ lg \in {NewCombiner(SiteOf(files), jsRoot) :
               files \in LegacySites, jsRoot \in LegacyRoots}

\* combiner.readFiles(filesToRead, locals)
LegacyReadFiles(filesToRead) ==
  /\ lg.top.state # "pending"
  /\ lg.ncalls < MaxCalls
  /\ lg' = nextTick(readFiles(begun(lg, "readFiles", filesToRead, FALSE),
                              filesToRead))
  /\ UNCHANGED <<disk, cache, res, served, nreq, nwrites, handlers, config,
                 mw, aio, parse,
                 pp, pl, proc>>

\* combiner.cacheFile(file, rejectOnError)
LegacyCacheFile(file, rejectOnError) ==
  /\ lg.top.state # "pending"
  /\ lg.ncalls < MaxCalls
  /\ lg' = nextTick(cacheFile(
             [begun(lg, "cacheFile", <<file>>, rejectOnError)
                EXCEPT !.top.promises = <<1>>],
             file, rejectOnError, FALSE, 0, DepthLimit))
  /\ UNCHANGED <<disk, cache, res, served, nreq, nwrites, handlers, config,
                 mw, aio, parse,
                 pp, pl, proc>>

\* the callback of a request.get fires: function(error, response, body)
LegacyFetched(idx, error) ==
  /\ idx \in 1..Len(lg.calls)
  /\ lg.calls[idx].state = "fetching"
  /\ error => lg.failures < MaxFailures
  /\ lg' = nextTick(IF error THEN failed(lg, idx)
                    ELSE xhrSuccess(lg, idx, lg.site[lg.calls[idx].file],
                                    DepthLimit))
  /\ UNCHANGED <<disk, cache, res, served, nreq, nwrites, handlers, config,
                 mw, aio, parse,
                 pp, pl, proc>>

NextLegacy ==
  \/ \E filesToRead \in LegacyBundles : LegacyReadFiles(filesToRead)
  \/ \E file \in LegacyFiles, rejectOnError \in BOOLEAN :
       LegacyCacheFile(file, rejectOnError)
  \/ \E idx \in 1..Len(lg.calls), error \in BOOLEAN :
       LegacyFetched(idx, error)

SpecLegacy == InitLegacy /\ [][NextLegacy]_vars

----------------------------------------------------------------------------
(* Requests through a Preprocessor, a LESSPreprocessor, a SASSPreprocessor *)
(* or a subclass with every combination of hooks, one request after the    *)
(* other; the file system and the compilers answer with or without an      *)
(* error.                                                                  *)

PreprocessorUrls == {"s.less", "s.LESS", "s.scss", "s.SASS", "s.css"}

Precedences == {NoPrecedence, CheckFileSystem, CheckNetwork, CheckBoth}

InitPreprocessor ==
  /\ config = DefaultConfig
  /\ handlers = parseHandlers(config).handlers
  /\ disk = DiskOf(Diamond)
  /\ cache = [p \in Paths |-> NoEntry]
  /\ res = NoRequest
  /\ served = {}
  /\ nreq = 0
  /\ nwrites = 0
  /\ mw = NoMiddleware
  /\ aio = NoRead
  /\ parse = NoParse
  /\ lg = NoLegacy
  /\ pp = NoPreprocessing
  /\ pl = NoPlugin
  /\ proc = NoProcess

\* app.use(preprocessor.middleware) receives a request
PreprocessorRequest(kind, hooks, lessRoot, precedence, url) ==
  /\ pp.io = "none"
  /\ pp.n < MaxRequests
  /\ pp' = _preprocessor_middleware(
             entered(pp, kind, hooks, lessRoot, precedence, url))
  /\ UNCHANGED <<disk, cache, res, served, nreq, nwrites, handlers, config,
                 mw, aio, parse, lg, pl, proc>>

\* the callback of fs.exists, fs.readFile, a compiler or the subclass fires
PreprocessorCallback(err) ==
  /\ pp.io # "none"
  /\ pp' = preprocessorCallback(pp, err)
  /\ UNCHANGED <<disk, cache, res, served, nreq, nwrites, handlers, config,
                 mw, aio, parse, lg, pl, proc>>

NextPreprocessor ==
  \/ \E kind \in Preprocessors \ {"subclass"}, lessRoot \in BOOLEAN,
        precedence \in Precedences, url \in PreprocessorUrls :
       PreprocessorRequest(kind, NoHooks, lessRoot, precedence, url)
  \/ \E hooks \in HookSets, precedence \in Precedences :
       PreprocessorRequest("subclass", hooks, FALSE, precedence, "s.css")
  \/ \E err \in BOOLEAN : PreprocessorCallback(err)

SpecPreprocessor == InitPreprocessor /\ [][NextPreprocessor]_vars

\* every callback that is pending fires
SpecPreprocessorFair ==
  SpecPreprocessor /\ WF_vars(\E err \in BOOLEAN : PreprocessorCallback(err))

----------------------------------------------------------------------------
(* A plugin built by one of the two factories, with or without a list of   *)
(* extensions, is invoked on one file after the other.                     *)

PluginFactories == {"BabelPlugin", "NPMPlugin"}

ExtensionLists == { <<>>, <<".es6">>, <<".ts", ".js">> }

FileExtensions == {".js", ".es6", ".es2015", ".ts", ".css"}

InitFactory ==
  /\ config = DefaultConfig
  /\ handlers = parseHandlers(config).handlers
  /\ disk = DiskOf(Diamond)
  /\ cache = [p \in Paths |-> NoEntry]
  /\ res = NoRequest
  /\ served = {}
  /\ nreq = 0
  /\ nwrites = 0
  /\ mw = NoMiddleware
  /\ aio = NoRead
  /\ parse = NoParse
  /\ lg = NoLegacy
  /\ pp = NoPreprocessing
  /\ pl \in {__generatePlugin(kind, extensions) :
               kind \in PluginFactories, extensions \in ExtensionLists}
  /\ proc = NoProcess

\* runPlugins calls the plugin for a file: plugin.call(cachedFile, data,
\* synchronous, extension)
Invoke(extension, onPath) ==
  /\ pl.n < MaxInvocations
  /\ pl' = invoked(pl, extension, onPath)
  /\ UNCHANGED <<disk, cache, res, served, nreq, nwrites, handlers, config,
                 mw, aio, parse, lg, pp, proc>>

NextFactory ==
  \E extension \in FileExtensions, onPath \in BOOLEAN :
    Invoke(extension, onPath)

SpecFactory == InitFactory /\ [][NextFactory]_vars

----------------------------------------------------------------------------
(* Combiners are constructed in one process, for the same application or   *)
(* for another one, with and without networkDefaults, and load files.      *)

NetworkDefaultsOptions ==
  { <<>>, [hostname |-> "cdn.example.com"], [port |-> "8080"] }

LoadedFiles == { <<"pub", "a.js">>, <<"pub", "b.js">> }

InitProcess ==
  /\ config = DefaultConfig
  /\ handlers = parseHandlers(config).handlers
  /\ disk = DiskOf(Diamond)
  /\ cache = [p \in Paths |-> NoEntry]
  /\ res = NoRequest
  /\ served = {}
  /\ nreq = 0
  /\ nwrites = 0
  /\ mw = NoMiddleware
  /\ aio = NoRead
  /\ parse = NoParse
  /\ lg = NoLegacy
  /\ pp = NoPreprocessing
  /\ pl = NoPlugin
  /\ proc = NoProcess

\* new Combiner(app, {projectRoot: ..., networkDefaults: ..., handlers: ...})
Construct(app, networkDefaults) ==
  /\ Len(proc.instances) < MaxInstances
  /\ proc' = Combiner(proc, app, networkDefaults)
  /\ UNCHANGED <<disk, cache, res, served, nreq, nwrites, handlers, config,
                 mw, aio, parse, lg, pp, pl>>

\* a request handled by one of the instances loads a file
Load(i, assetName) ==
  /\ i \in 1..Len(proc.instances)
  /\ proc' = cached(proc, assetName)
  /\ UNCHANGED <<disk, cache, res, served, nreq, nwrites, handlers, config,
                 mw, aio, parse, lg, pp, pl>>

NextProcess ==
  \/ \E app \in Apps, networkDefaults \in NetworkDefaultsOptions :
       Construct(app, networkDefaults)
  \/ \E i \in 1..MaxInstances, assetName \in LoadedFiles :
       Load(i, assetName)

SpecProcess == InitProcess /\ [][NextProcess]_vars

----------------------------------------------------------------------------
(* Vocabulary of the properties.                                           *)

Range(seq) == {seq[i] : i \in 1..Len(seq)}

IndexIn(seq, x) == CHOOSE i \in 1..Len(seq) : seq[i] = x

Count(seq, x) == Cardinality({i \in 1..Len(seq) : seq[i] = x})

\* no file was modified since the last request was handled
Fresh == res.resolved /\ res.epoch = nwrites

\* the identifiers declared by the directives of a loaded asset
Declared(asset) == Range(parseCommentArray(cache[asset].data))

\* the handler that resolves identifier n declared by `asset`: the first
\* handler listing n's lower-cased extension, else the handler the asset
\* itself was walked with
Resolver(asset, n) ==
  LET listing == {i \in 1..Len(handlers) :
                    toLowerCase(extname(n)) \in Range(handlers[i].extensions)}
  IN  IF listing = {} THEN res.via[asset]
      ELSE CHOOSE i \in listing : \A j \in listing : i <= j

\* the files named n under the file system roots of handler h
FilesUnder(h, n) ==
  {<<normalizeDir(handlers[h].roots[i].path), n>> :
     i \in {j \in 1..Len(handlers[h].roots) :
              /\ handlers[h].roots[j].type = FILE_SYSTEM
              /\ disk[<<normalizeDir(handlers[h].roots[j].path), n>>].exists}}

\* asset A declares a dependency that resolves to file B
DependsOn(A, B) ==
  \E n \in Declared(A) : B \in FilesUnder(Resolver(A, n), n)

RECURSIVE ReachableIn(_, _)
ReachableIn(S, k) ==
  IF k = 0 THEN S
  ELSE ReachableIn(S \cup {B \in res.cachedFiles :
                             \E A \in S : DependsOn(A, B)}, k - 1)

\* the loaded files that A requires, directly or transitively
Requires(A) ==
  ReachableIn({B \in res.cachedFiles : DependsOn(A, B)},
              Cardinality(res.cachedFiles))

OnCycle(A) == A \in Requires(A)

Acyclic == \A A \in res.cachedFiles : ~OnCycle(A)

\* the plugin invocations of the last request on one file
CallsOf(path) == SelectSeq(res.calls, LAMBDA c : c.path = path)

----------------------------------------------------------------------------
(* Properties.                                                             *)

\* C1: in an acyclic dependency graph, when asset A declares a dependency
\* that resolves to the existing file B, B is in valueStore.order at a lower
\* index than A when the top-level call returns.
C1_DependencyFirst ==
  (Fresh /\ ~res.error /\ Acyclic) =>
    \A A \in res.cachedFiles : \A B \in Paths :
      DependsOn(A, B) =>
        /\ A \in Range(res.order)
        /\ B \in Range(res.order)
        /\ IndexIn(res.order, B) < IndexIn(res.order, A)

C1_Witness ==
  /\ Fresh /\ Acyclic /\ res.send = 1
  /\ \E A, B, C \in res.cachedFiles :
       /\ Cardinality({A, B, C}) = 3
       /\ DependsOn(A, B) /\ DependsOn(A, C) /\ DependsOn(B, C)

\* C2: a readFile on a path cached with modification time T whose file on
\* disk has modification time T' > T re-reads the file, re-runs the plugins
\* on the new content and records T'.
C2_Freshness ==
  \A i \in 1..Len(res.reads) :
    LET r == res.reads[i]
    IN  (r.wasCached /\ r.diskMtime > r.cachedMtime) =>
          /\ ~r.useCache
          /\ cache[r.path].mtime = r.diskMtime
          /\ Len(CallsOf(r.path)) = Len(cache[r.path].plugins)

\* C3: a request repeated with no file modified in between gets the same
\* body, and no plugin is invoked while it is handled.
C3_WarmIdempotence ==
  (res.repeatOf # NoBody) =>
    /\ res.send = 1
    /\ res.body = res.repeatOf
    /\ res.calls = <<>>

C3_Witness ==
  /\ res.repeatOf # NoBody
  /\ Len(res.order) >= 2
  /\ \E p \in Range(res.order) : cache[p].plugins # <<>>

\* C4: within one request every path appears at most once in
\* valueStore.order and is loaded through the file cache at most once.
C4_AtMostOnce ==
  /\ \A p \in Paths : Count(res.order, p) <= 1
  /\ \A i, j \in 1..Len(res.reads) :
       res.reads[i].path = res.reads[j].path => i = j

C4_Witness ==
  /\ Fresh /\ res.send = 1
  /\ \E A, B, C \in res.cachedFiles :
       /\ A # B
       /\ DependsOn(A, C) /\ DependsOn(B, C)
  /\ \E i, j \in 1..Len(handlers[res.h].roots) :
       /\ i # j
       /\ handlers[res.h].roots[i].type = FILE_SYSTEM
       /\ handlers[res.h].roots[j].type = FILE_SYSTEM
       /\ normalizeDir(handlers[res.h].roots[i].path)
            = normalizeDir(handlers[res.h].roots[j].path)

\* C5: with a cycle in the dependency graph the walk terminates (it stays
\* within the recursion depth and the response is sent), and every file of
\* the cycle is exactly once in valueStore.order.
C5_CyclesTerminate ==
  res.resolved =>
    /\ ~res.overflow
    /\ res.send = 1
    /\ Fresh => \A A \in res.cachedFiles :
                  OnCycle(A) => Count(res.order, A) = 1

C5_Witness ==
  /\ Fresh /\ res.send = 1
  /\ \E A, B \in res.cachedFiles :
       A # B /\ DependsOn(A, B) /\ DependsOn(B, A)
  /\ \E A \in res.cachedFiles : DependsOn(A, A)

\* C6: when asset A declares X and X exists under none of the roots of the
\* handler resolving it, the walk completes without throwing, a warning
\* names X, valueStore.order has A and no file of X, and the other
\* dependencies of A are resolved.
C6_MissingTolerated ==
  Fresh =>
    \A A \in res.cachedFiles : \A X \in Declared(A) :
      FilesUnder(Resolver(A, X), X) = {} =>
        /\ ~res.error
        /\ res.send = 1
        /\ X \in Range(res.warnings)
        /\ A \in Range(res.order)
        /\ \A i \in 1..Len(handlers[Resolver(A, X)].roots) :
             <<normalizeDir(handlers[Resolver(A, X)].roots[i].path), X>>
               \notin Range(res.order)
        /\ \A B \in Paths : DependsOn(A, B) => B \in Range(res.order)

C6_Witness ==
  /\ Fresh /\ res.send = 1
  /\ \E A \in res.cachedFiles :
       LET ids == parseCommentArray(cache[A].data)
       IN  \E i, j \in 1..Len(ids) :
             /\ i < j
             /\ FilesUnder(Resolver(A, ids[i]), ids[i]) = {}
             /\ FilesUnder(Resolver(A, ids[j]), ids[j]) # {}
             /\ FilesUnder(Resolver(A, ids[j]), ids[j]) \subseteq Range(res.order)

\* C7: a request whose lower-cased extension is not in handler.extensions
\* is declined: next() is called, nothing is resolved or loaded, nothing is
\* sent.
C7_Declines ==
  (res.h # NoHandler /\
   toLowerCase(extname(res.name)) \notin Range(handlers[res.h].extensions)) =>
    /\ res.next = 1
    /\ res.send = 0
    /\ ~res.resolved
    /\ res.reads = <<>> /\ res.calls = <<>> /\ res.order = <<>>
    /\ cache = res.cacheBefore

C7_Witness ==
  /\ res.h # NoHandler
  /\ toLowerCase(extname(res.name)) \notin Range(handlers[res.h].extensions)
  /\ res.next = 1
  /\ \E p \in Paths : p[2] = res.name /\ disk[p].exists

RECURSIVE Joined(_, _)
Joined(order, sep) ==
  IF order = <<>> THEN <<>>
  ELSE IF Len(order) = 1 THEN cache[order[1]].data
  ELSE cache[order[1]].data \o sep \o Joined(Tail(order), sep)

\* C8: the body sent is the data of the assets of valueStore.order, in that
\* sequence, joined by handler.fileSeparator, or by the empty string when
\* no separator is configured.
C8_BodyIsJoin ==
  (res.send = 1) =>
    res.body = Joined(res.order,
                      IF handlers[res.h].fileSeparator = Undefined THEN <<>>
                      ELSE handlers[res.h].fileSeparator)

C8_Witness ==
  /\ res.send = 1
  /\ Len(res.order) >= 3
  /\ handlers[res.h].fileSeparator \notin {Undefined, <<>>}

\* C9: on each load in which every plugin returns a string, runPlugins
\* invokes every plugin of the list once, in list order, the first with the
\* raw content and each later one with the content returned by the previous
\* one, and the stored data is the last plugin's result.
C9_PipelineChain ==
  \A i \in 1..Len(res.reads) :
    LET r == res.reads[i]
        ps == cache[r.path].plugins
        cs == CallsOf(r.path)
    IN  (~r.useCache /\ \A k \in 1..Len(cs) :
                          ~cs[k].threw /\ cs[k].ret # Undefined) =>
          /\ Len(cs) = Len(ps)
          /\ \A k \in 1..Len(cs) :
               /\ cs[k].plugin = ps[k]
               /\ cs[k].arg = IF k = 1 THEN r.raw ELSE cs[k - 1].ret
          /\ cache[r.path].data = IF Len(cs) = 0 THEN r.raw
                                  ELSE cs[Len(cs)].ret

LowerHeader(name) ==
  CASE name \in {"Content-Type", "content-type", "CONTENT-TYPE"} -> "content-type"
    [] name = "X-Content-Type-Options" -> "x-content-type-options"
    [] name = "ETag" -> "etag"
    [] name = "Expires" -> "expires"
    [] OTHER -> name

\* the calls of res.set made by one part of writeOutput
SetBy(from) == SelectSeq(res.headers, LAMBDA c : c.from = from)

\* the value the response ends with for a header: the last one set
FinalHeader(lname) ==
  LET at == {i \in 1..Len(res.headers) : LowerHeader(res.headers[i].name) = lname}
  IN  res.headers[CHOOSE i \in at : \A j \in at : j <= i].value

MimeMapHas(handler, key) ==
  /\ handler.outputMimeTypes.t = "object"
  /\ \E i \in 1..Len(handler.outputMimeTypes.entries) :
       handler.outputMimeTypes.entries[i][1] = key

MimeMapAt(handler, key) ==
  LET e == CHOOSE e \in Range(handler.outputMimeTypes.entries) : e[1] = key
  IN  e[2]

\* C11: writeOutput sets the Content-Type to the handler's outputMimeType
\* when that is a string; otherwise to the outputMimeTypes entry of the
\* requested asset's (lower-cased) extension; otherwise to the '*' entry of
\* outputMimeTypes when there is one; otherwise it sets no Content-Type.
C11_ContentTypeChoice ==
  (res.send = 1) =>
    LET handler == handlers[res.h]
        ext == toLowerCase(extname(res.name))
        chosen == [i \in 1..Len(SetBy("outputMimeType")) |->
                     <<SetBy("outputMimeType")[i].name,
                       SetBy("outputMimeType")[i].value>>]
    IN  IF handler.outputMimeType.t = "string"
        THEN chosen = << <<"Content-Type", handler.outputMimeType.s>> >>
        ELSE IF MimeMapHas(handler, ext)
        THEN chosen = << <<"Content-Type", MimeMapAt(handler, ext)>> >>
        ELSE IF MimeMapHas(handler, "*")
        THEN chosen = << <<"Content-Type", MimeMapAt(handler, "*")>> >>
        ELSE chosen = <<>>

C11_Witness ==
  /\ res.send = 1
  /\ handlers[res.h].outputMimeType.t # "string"
  /\ ~MimeMapHas(handlers[res.h], toLowerCase(extname(res.name)))
  /\ MimeMapHas(handlers[res.h], ".css")
  /\ MimeMapHas(handlers[res.h], "*")
  /\ Len(SetBy("outputMimeType")) = 1
  /\ FinalHeader("content-type") = "text/plain"

\* C12: writeOutput applies every entry of handler.responseHeaders with its
\* configured value, after the Content-Type selection; an entry named
\* Content-Type (in any letter case) is applied like the others, so that the
\* response ends with the responseHeaders value as its Content-Type.
C12_ResponseHeaders ==
  (res.send = 1 /\ handlers[res.h].responseHeaders.t = "object") =>
    LET entries == handlers[res.h].responseHeaders.entries
        named == {i \in 1..Len(entries) :
                    entries[i][1] \in {"Content-Type", "content-type",
                                       "CONTENT-TYPE"}}
    IN  /\ [i \in 1..Len(SetBy("responseHeaders")) |->
              <<SetBy("responseHeaders")[i].name,
                SetBy("responseHeaders")[i].value>>] = entries
        /\ \A i, j \in 1..Len(res.headers) :
             (res.headers[i].from = "outputMimeType" /\
              res.headers[j].from = "responseHeaders") => i < j
        /\ named # {} =>
             FinalHeader("content-type")
               = entries[CHOOSE i \in named : \A j \in named : j <= i][2]

C12_Witness ==
  /\ res.send = 1
  /\ handlers[res.h].responseHeaders.t = "object"
  /\ Len(SetBy("outputMimeType")) = 1
  /\ Len(SetBy("responseHeaders")) = 3
  /\ SetBy("outputMimeType")[1].value = "text/javascript"
  /\ FinalHeader("content-type") = "application/override"

\* the entries of the written configuration that list a type
Listing(type) ==
  {k \in 1..Len(config) :
     /\ config[k].extensions.t = "array"
     /\ type \in Range(config[k].extensions.entries)}

\* C13: when a dependency's extension is listed by several configured
\* handlers, the handler used to resolve it is the one written first in the
\* configuration the user supplied, whatever the handler names are.
C13_FirstWritten ==
  \A i \in 1..Len(res.lookups) :
    LET type == toLowerCase(extname(res.lookups[i].id))
        first == CHOOSE k \in Listing(type) : \A j \in Listing(type) : k <= j
    IN  Listing(type) # {} =>
          handlers[res.lookups[i].h]
            = parsedHandler(slashed(config[first].name), config[first])

\* C14: every handler left in this.handlers by parseHandlers has a
\* non-empty extensions list: a handler configured with an empty list or
\* with no list is dropped.
C14_NonEmptyExtensions ==
  \A i \in 1..Len(handlers) :
    /\ handlers[i].extensions # NoExtensions
    /\ Len(handlers[i].extensions) > 0

\* the lookups of the last request: the requested asset under the handler
\* of the endpoint, and every requirement under the handler chosen for it
Resolutions ==
  IF res.resolved
  THEN {<<res.h, res.name>>} \cup
       {<<res.lookups[i].h, res.lookups[i].id>> : i \in 1..Len(res.lookups)}
  ELSE {}

\* the first file-system root of handler h under which n exists
FirstRoot(h, n) ==
  CHOOSE i \in 1..Len(handlers[h].roots) :
    /\ handlers[h].roots[i].type = FILE_SYSTEM
    /\ disk[<<normalizeDir(handlers[h].roots[i].path), n>>].exists
    /\ \A j \in 1..(i - 1) :
         ~(/\ handlers[h].roots[j].type = FILE_SYSTEM
           /\ disk[<<normalizeDir(handlers[h].roots[j].path), n>>].exists)

FirstFile(h, n) == <<normalizeDir(handlers[h].roots[FirstRoot(h, n)].path), n>>

C16_BypassHonoured ==
  (res.h # NoHandler /\ res.query \in {"true", "TRUE", "True"}) =>
    /\ res.next = 1
    /\ res.send = 0
    /\ ~res.resolved

\* C19: the shared file cache only grows or replaces: a path that has an
\* entry in CachedFile.cache has an entry in every later state.
C19_CacheOnlyGrows ==
  [][\A p \in Paths : cache[p].present => cache'[p].present]_vars

C19_Witness ==
  /\ res.send = 1
  /\ \E p \in Paths : res.cacheBefore[p].present /\ cache[p].present
                      /\ cache[p] # res.cacheBefore[p]
  /\ \E q \in Paths : ~res.cacheBefore[q].present /\ cache[q].present
  /\ \E i \in 1..Len(res.reads) : res.reads[i].useCache

\* C17: in the JSCombiner and CSSCombiner middleware, when
\* req.query.skipCombiner is 'true' in any letter case, next() is called
\* and neither readFiles nor res.send is invoked for that request.
C17_MiddlewareSkips ==
  (mw.kind # "" /\ mw.query \in {"true", "TRUE", "True", "tRuE"}) =>
    /\ mw.next = 1
    /\ mw.readFiles = 0
    /\ mw.send = 0
    /\ ~mw.pending

C17_Witness ==
  /\ mw.kind = "CSSCombiner.js"
  /\ mw.query = "tRuE"
  /\ mw.url = "s.css"
  /\ mw.next = 1
  /\ nreq = 2

\* C18: in asynchronous mode, when the stat or the read of the file fails
\* and every I/O callback has fired, the promise returned to the caller is
\* rejected and no exception has escaped an I/O callback.
C18_AsyncFailureRejects ==
  (aio.phase = "done" /\ (aio.statErr \/ aio.readErr)) =>
    /\ aio.file = "rejected"
    /\ ~aio.escaped

\* the identifiers written in the well-formed occurrences of a text, in
\* the order written
RECURSIVE Written(_)
Written(source) ==
  IF source = <<>> THEN <<>>
  ELSE (IF Head(source).k = "req" THEN Head(source).ids ELSE <<>>)
         \o Written(Tail(source))

\* C20: parseCommentArray returns the identifiers of all well-formed
\* @require [...] occurrences of a text, in file-appearance order, each
\* occurrence's identifiers in in-array order, concatenated across
\* occurrences; for a text with no occurrence it returns the empty sequence.
C20_IdentifiersInOrder ==
  parse.done => parse.results = Written(parse.source)

\* a text without its occurrences that do not evaluate
WellFormed(source) == SelectSeq(source, LAMBDA piece : piece.k # "bad")

C22_AlwaysAnswered ==
  res.h # NoHandler =>
    /\ ~res.error
    /\ res.next + res.send = 1
    /\ (res.next = 1) <=> ~accepts(handlers[res.h], getType(res.name))

\* the identifiers a page of the site declares
LegacyDeclared(site, file) == parseCommentArray(site[file])

\* the files reached from the files of S in n steps of requirement
RECURSIVE LegacyReach(_, _, _)
LegacyReach(site, S, n) ==
  IF n = 0 THEN S
  ELSE LegacyReach(site,
         S \cup UNION {Range(LegacyDeclared(site, f)) : f \in S}, n - 1)

\* no page of the site requires itself, directly or not
LegacyAcyclic(site) ==
  \A f \in LegacyNames :
    f \notin LegacyReach(site, Range(LegacyDeclared(site, f)),
                         Cardinality(LegacyNames))

\* every occurrence of A in the list comes after an occurrence of B
Before(order, B, A) ==
  \A i \in 1..Len(order) :
    order[i] = A => \E j \in 1..(i - 1) : order[j] = B

\* the place of the first occurrence of a file of the list
FirstAt(order, file) ==
  CHOOSE i \in 1..Len(order) :
    order[i] = file /\ \A j \in 1..(i - 1) : order[j] # file

\* the first readFiles call of an instance has resolved, and no request
\* to the server has failed
LegacyFirstDone ==
  /\ lg.top.kind = "readFiles"
  /\ lg.top.state = "resolved"
  /\ lg.ncalls = 1
  /\ lg.failures = 0

\* C23: in the promise-based Combiner, over pages without a requirement
\* cycle, once readFiles has resolved every requirement of a file comes
\* before that file in this.order, the list the output is built from, and
\* the requirements of one file come in their declared order, also when
\* two files of the bundle share a requirement.
C23_LegacyDependencyFirst ==
  (LegacyFirstDone /\ LegacyAcyclic(lg.site)) =>
    \A A \in Range(lg.order) :
      LET reqs == LegacyDeclared(lg.site, A)
      IN  /\ \A k \in 1..Len(reqs) : Before(lg.order, reqs[k], A)
          /\ \A j, k \in 1..Len(reqs) :
                j < k => FirstAt(lg.order, reqs[j]) < FirstAt(lg.order, reqs[k])

\* C24: a handler answers with a bundle only the requests whose HTTP
\* method is the method it is configured with (get when none or an unknown
\* one is configured).
C24_MethodHonoured ==
  (res.h # NoHandler /\ res.send = 1) => res.method = handlers[res.h].method

\* a root has the parts of a URL the network defaults supply
Completed(root) == {"protocol", "hostname", "port"} \subseteq DOMAIN root

\* C25: constructing a Combiner whose configuration gives a handler a
\* root of type NETWORK succeeds, and every network root that is stored
\* has been completed with protocol, hostname and port.
C25_NetworkRootCompleted ==
  (\E i \in 1..Len(config) :
     \E r \in 1..Len(config[i].roots) : config[i].roots[r].type = NETWORK) =>
    /\ ~parseHandlers(config).threw
    /\ \A h \in 1..Len(handlers) :
         \A r \in 1..Len(handlers[h].roots) :
           handlers[h].roots[r].type = NETWORK =>
             Completed(handlers[h].roots[r])

\* C26: in the promise-based resolver a file is in this.order only once
\* the fetches of all its requirements have settled.
C26_AppendAfterSettled ==
  \A idx \in 1..Len(lg.calls) :
    lg.calls[idx].file \in Range(lg.order) =>
      allSettled(lg.calls, lg.calls[idx].reqsPromise)

\* the calls of cacheFile whose request failed
FailedCalls == {idx \in 1..Len(lg.calls) : lg.calls[idx].error}

\* the calls a call was made for: the call of the file that requires it,
\* and so on up to the call of the user
RECURSIVE Ancestors(_)
Ancestors(idx) ==
  IF lg.calls[idx].parent = 0 THEN {}
  ELSE {lg.calls[idx].parent} \cup Ancestors(lg.calls[idx].parent)

\* the other requirements dispatched together with a call
Siblings(idx) ==
  {j \in 1..Len(lg.calls) :
     j # idx /\ lg.calls[j].parent = lg.calls[idx].parent}

\* the file of a call is in no cache entry: it is missing for the output
TreatedAsMissing(idx) ==
  (\A j \in 1..Len(lg.calls) :
     lg.calls[j].file = lg.calls[idx].file => lg.calls[j].error)
    => ~lg.cache[lg.calls[idx].file].present

\* C27: when the fetch of an asset fails and the call of the user has
\* settled: with rejectOnError the promise of the resolution and of every
\* ancestor of the failed call is rejected; without it the asset is
\* treated as missing, its siblings are fetched and cached, and the
\* resolution resolves.
C27_FailurePropagation ==
  (lg.top.state \in {"resolved", "rejected"} /\ lg.ncalls = 1
     /\ FailedCalls # {}) =>
    IF lg.top.rejectOnError
    THEN /\ lg.top.state = "rejected"
         /\ \A idx \in FailedCalls :
              \A anc \in Ancestors(idx) : lg.calls[anc].state = "rejected"
    ELSE /\ lg.top.state = "resolved"
         /\ \A idx \in FailedCalls :
              /\ TreatedAsMissing(idx)
              /\ \A j \in Siblings(idx) :
                   /\ settled(lg.calls[j])
                   /\ ~lg.calls[j].error => lg.cache[lg.calls[j].file].present

\* what a synchronous load of the same file with the same plugins leaves
\* in the cache
SyncLoaded(path) ==
  newCachedFile(cache, disk, path, cache[path].plugins).entry

\* C29: an asynchronous readFile whose stat and read succeed ends as the
\* synchronous one does: the file promise is resolved, no exception has
\* escaped, and the cache entry holds the content the synchronous load
\* stores (the plugins run once over the raw content) and the mtime of
\* the file.
C29_AsyncAsSync ==
  (aio.phase = "done" /\ ~aio.statErr /\ ~aio.readErr) =>
    /\ aio.file = "resolved"
    /\ ~aio.escaped
    /\ cache[aio.path].data = SyncLoaded(aio.path).data
    /\ cache[aio.path].mtime = SyncLoaded(aio.path).mtime

\* the call whose request was sent first among those not answered yet
FirstFetching(st) ==
  CHOOSE idx \in 1..Len(st.calls) :
    /\ st.calls[idx].state = "fetching"
    /\ \A j \in 1..(idx - 1) : st.calls[j].state # "fetching"

\* the run in which the server answers the requests in the order sent
RECURSIVE InOrderSent(_)
InOrderSent(st) ==
  IF \A idx \in 1..Len(st.calls) : st.calls[idx].state # "fetching" THEN st
  ELSE InOrderSent(
         nextTick(xhrSuccess(st, FirstFetching(st),
                             st.site[st.calls[FirstFetching(st)].file],
                             DepthLimit)))

\* what the first readFiles(files) of a new instance leaves when the
\* answers come in the order sent
Sequential(site, jsRoot, files) ==
  InOrderSent(nextTick(readFiles(
    begun(NewCombiner(site, jsRoot), "readFiles", files, FALSE), files)))

\* C28: for fixed pages, this.order and this.output after one readFiles
\* call are the same whatever the order in which the requests are answered:
\* they are those of the run that answers them in the order sent.
C28_ScheduleIndependent ==
  LegacyFirstDone =>
    /\ lg.order = Sequential(lg.site, lg.jsRoot, lg.top.files).order
    /\ lg.output = Sequential(lg.site, lg.jsRoot, lg.top.files).output

\* C30: readFiles called a second time with the same files on the same
\* instance, the pages unchanged and no request failing, leaves the order
\* and the output of the first call.
C30_LegacyIdempotent ==
  (/\ lg.top.kind = "readFiles"
   /\ lg.top.state = "resolved"
   /\ lg.failures = 0
   /\ lg.prev.set
   /\ lg.prev.files = lg.top.files) =>
    /\ lg.order = lg.prev.order
    /\ lg.output = lg.prev.output


\* C31: a request through Preprocessor.middleware calls next() at most
\* once; next() has been called exactly when the deferred of
\* shouldPreprocess, determineAssetName or doesAssetExist was rejected or
\* the deferred of _middleware was resolved, so it is not called when
\* _middleware rejects; and a stage is started only when the stage before
\* it resolved.
C31_NextAtMostOnce ==
  /\ pp.next <= 1
  /\ pp.next = 1 <=> \/ "rejected" \in {pp.sp, pp.dan, pp.dae}
                     \/ pp.mw = "resolved"
  /\ pp.mw = "rejected" => pp.next = 0
  /\ pp.dan # "none" => pp.sp = "resolved"
  /\ pp.dae # "none" => pp.dan = "resolved"
  /\ pp.mw # "none" => pp.dae = "resolved"

\* a subclass resolved the deferred of _middleware from a callback, after
\* the file was found, and next() was called once
C31_Witness ==
  /\ pp.kind = "subclass"
  /\ pp.hooks.mw = "later"
  /\ pp.io = "none"
  /\ pp.mw = "resolved"
  /\ pp.next = 1


\* C32: when every pending callback fires, each request given to the
\* middleware of a LESSPreprocessor or a SASSPreprocessor ends: next() is
\* called or the deferred of _middleware is rejected.
C32_EveryRequestEnds ==
  (pp.n > 0 /\ pp.kind \in {"LESSPreprocessor", "SASSPreprocessor"})
    ~> (pp.next > 0 \/ pp.mw = "rejected")


\* C33: on every invocation a plugin built by BabelPlugin or NPMPlugin
\* transforms the file exactly when the file's extension is in the list of
\* extensions it was built with (and, for NPMPlugin, the path holds a
\* required part): the n-th file is treated like the first.
C33_SameDecisionEveryTime ==
  pl.n > 0 =>
    (pl.attempted <=> /\ indexOf(pl.built, pl.extension) # -1
                      /\ pl.kind = "NPMPlugin" => pl.onPath)


\* the position of a file among the loads of the last request
LoadIndex(p) == CHOOSE i \in 1..Len(res.reads) : res.reads[i].path = p

\* the files that the i-th identifier declared by A resolves to
DeclaredAt(A, i) ==
  FilesUnder(Resolver(A, parseCommentArray(cache[A].data)[i]),
             parseCommentArray(cache[A].data)[i])

\* g was not included when the walk of A reached its j-th identifier: it was
\* loaded after A, and none of the identifiers before the j-th resolves to
\* it or to a file that requires it
IncludedAtTurn(A, j, g) ==
  /\ LoadIndex(g) > LoadIndex(A)
  /\ \A i \in 1..(j - 1) : \A f \in DeclaredAt(A, i) :
       g # f /\ g \notin Requires(f)

C35_OrderWithinCachedFiles ==
  /\ res.unloaded = {}
  /\ \A p \in Range(res.order) :
       p \in res.cachedFiles /\ cache[p].present /\ cache[p].data # Null
  /\ (res.resolved /\ ~res.error /\ ~res.overflow) =>
       Range(res.order) = res.cachedFiles

\* a bundle of three files or more was sent, and one identifier was found
\* under no root
C35_Witness ==
  /\ res.send = 1
  /\ Len(res.order) >= 3
  /\ res.warnings # <<>>


\* C36: after any number of constructions Combiner.NETWORK_DEFAULTS has its
\* built-in values, and for every instance the cache that CachedFile.cache
\* returns, which is the one the instance reads and writes, is the cache
\* object the instance was constructed with.
C36_ConstructionLeavesShared ==
  /\ proc.NETWORK_DEFAULTS = NETWORK_DEFAULTS
  /\ \A i \in 1..Len(proc.instances) :
       CachedFileCache(proc) = proc.instances[i].cache


\* C37: on each load whose plugin list is not empty and in which no plugin
\* throws and every plugin returns a string, the data stored by runPlugins
\* is the string returned by the last plugin, the empty string included.
C37_LastResultStored ==
  \A i \in 1..Len(res.reads) :
    LET r == res.reads[i]
        cs == CallsOf(r.path)
    IN  (/\ ~r.useCache
         /\ cs # <<>>
         /\ \A k \in 1..Len(cs) : ~cs[k].threw /\ cs[k].ret # Undefined) =>
          cache[r.path].data = cs[Len(cs)].ret


\* C38: while no file has been modified, the data of every file of a bundle
\* that was sent is the file's content run through the plugin list of the
\* handler the file was resolved through in this request, whichever handler
\* loaded the file first.
C38_PluginsOfResolvingHandler ==
  (res.send = 1 /\ nwrites = 0) =>
    \A p \in Range(res.order) :
      cache[p].data = runPlugins(handlers[res.via[p]].plugins,
                                 disk[p].data).data

====
